---- MODULE Spec2Model ----
(***************************************************************************)
(* Model of the REST API documentation generator:                          *)
(*   - the completion client (OpenRouterClient): retry, backoff, error     *)
(*     mapping, connection test;                                           *)
(*   - the route extractor (RouteParser);                                  *)
(*   - the documentation synthesizer (OpenAPIGenerator).                   *)
(* Each component has its own specification over the shared variables.     *)
(***************************************************************************)
EXTENDS Integers, Sequences, FiniteSets, TLC

VARIABLES
    \* ---- completion client ----
    cpc,          \* position of the call: "idle", "send", "sleep", "done", "tested"
    req,          \* "none", "single" (generateDocumentation), "batch"
    retryCount,   \* argument retryCount of the running sendRequestWithRetry
    script,       \* what the transport answers to the 1st, 2nd, ... call
    calls,        \* outcomes of the transport calls made so far, in order
    sleeps,       \* delays (ms) of the backoff sleeps made so far, in order
    lastErr,      \* the error caught by the latest failing transport call
    result,       \* what the request returned or raised
    tc,           \* outcome of the latest testConnection call
    \* ---- route extractor ----
    ppc,          \* position of parseRoutes: "start", "walk", "done"
    pin,          \* the source file given to parseRoutes
    pidx,         \* number of call expressions the traversal has visited
    routes,       \* the local list routes of parseRoutes
    presult,      \* the list parseRoutes returned
    pthrew,       \* TRUE when an exception left parseRoutes
    \* ---- documentation synthesizer ----
    paths,        \* document.paths: path key -> (item key -> operation)
    tags,         \* document.tags, in insertion order
    glast,        \* the latest call on the generator
    schemas,      \* the names in document.components.schemas
    gfinal,       \* finalizeDocument calls made in a row
    openapi,      \* document.openapi
    info,         \* document.info
    servers,      \* document.servers
    added,        \* history: the normalized paths passed to addRoutes so far
    \* ---- single function calls ----
    fpc,          \* "none", "called" (argument chosen), "returned"
    farg,         \* the argument of the call
    fres,         \* the values returned so far, in order
    \* ---- file watcher service ----
    watchers,     \* this.watchers: the pattern of each live watcher, in order
    debounceTimer,\* this.debounceTimer: the handle of the latest timer, or NoTimer
    debounceDelay,\* this.debounceDelay, in ticks
    isEnabled,    \* this.isEnabled
    timers,       \* the timers pending in the event loop
    now,          \* the clock
    events,       \* history: the file events delivered so far, in order
    fired,        \* history: the onChange invocations so far, in order
    superseded,   \* history: events whose timer a later debounce() cleared
    cancelled,    \* history: events whose timer stop() cleared
    stopped,      \* history: stop() has returned and start() was not called since
    \* ---- documentation service: generateDocumentation ----
    spc,          \* position: "start", "check", "ai", "sleep", "write", "done", "failed"
    scanResult,   \* the routes of scanResult
    si,           \* the loop index i
    cancelRequested, \* token.isCancellationRequested
    examined,     \* history: the readings of the cancellation flag, in order
    aiCalls,      \* history: the routes (by index) an AI call was issued for
    written,      \* the output files written so far, in order
    serr,         \* the message of the error the run raised, or "none"
    \* ---- documentation service: generateForChangedFile ----
    disk,         \* the stored documents: openapi.yaml and openapi.json
    runs,         \* the runs under way: position, file, routes, local document
    \* ---- parser service: scanAndParseRoutes ----
    scpc,         \* position: "start", "loop", "done"
    sfiles,       \* routeFiles, the files the scanner found
    sidx,         \* number of files the loop has handled
    sresult       \* the local result

clientVars == <<cpc, req, retryCount, script, calls, sleeps, lastErr, result, tc>>

parserVars == <<ppc, pin, pidx, routes, presult, pthrew>>

genVars == <<paths, tags, glast, schemas, gfinal, openapi, info, servers>>

histVars == <<added>>

fnVars == <<fpc, farg, fres>>

watchVars == <<watchers, debounceTimer, debounceDelay, isEnabled, timers, now,
               events, fired, superseded, cancelled, stopped>>

svcVars == <<spc, scanResult, si, cancelRequested, examined, aiCalls, written, serr>>

syncVars == <<disk, runs>>

scanVars == <<scpc, sfiles, sidx, sresult>>

extVars == <<watchVars, svcVars, syncVars, scanVars>>

(***************************************************************************)
(* Text of a model response, as a sequence of tokens:                      *)
(*   "F" a triple backtick, "Y" the word yaml (any case), "M" the word yml *)
(*   (any case), "W" one whitespace character, "x" any other character.    *)
(***************************************************************************)
Tokens == {"F", "Y", "M", "W", "x"}

\* Longest response text the transport produces in the model.
MaxContentLen == 3

RECURSIVE SeqsUpTo(_, _)
SeqsUpTo(S, n) ==
    IF n = 0 THEN {<<>>}
    ELSE LET shorter == SeqsUpTo(S, n - 1)
         IN  shorter \cup {Append(s, e) : s \in {t \in shorter : Len(t) = n - 1}, e \in S}

Contents == SeqsUpTo(Tokens, MaxContentLen)

RECURSIVE TrimLeft(_)
TrimLeft(s) == IF s # <<>> /\ Head(s) = "W" THEN TrimLeft(Tail(s)) ELSE s

RECURSIVE TrimRight(_)
TrimRight(s) ==
    IF s # <<>> /\ s[Len(s)] = "W" THEN TrimRight(SubSeq(s, 1, Len(s) - 1)) ELSE s

Trim(s) == TrimRight(TrimLeft(s))

\* s.replace(/^```<word>\s*/i, '')
StripOpening(s, word) ==
    IF Len(s) >= 2 /\ s[1] = "F" /\ s[2] = word
    THEN TrimLeft(SubSeq(s, 3, Len(s)))
    ELSE s

\* s.replace(/^```\s*/, '')
StripBareOpening(s) ==
    IF s # <<>> /\ Head(s) = "F" THEN TrimLeft(Tail(s)) ELSE s

\* s.replace(/\s*```\s*$/, '')
StripClosing(s) ==
    LET t == TrimRight(s)
    IN  IF t # <<>> /\ t[Len(t)] = "F"
        THEN TrimRight(SubSeq(t, 1, Len(t) - 1))
        ELSE s

extractYAML(response) ==
    Trim(StripClosing(StripBareOpening(
         StripOpening(StripOpening(Trim(response), "Y"), "M"))))

(***************************************************************************)
(* Outcomes of one transport call (client.post).                           *)
(*   kind "ok":       a response; body says what response.data holds       *)
(*   kind "status":   an axios error carrying a response (status, data)    *)
(*   kind "network":  an axios error with a request but no response        *)
(*   kind "setup":    an axios error with neither request nor response     *)
(*   kind "other":    an exception that is not an axios error              *)
(* data of an error response: "null" (null or undefined), "empty" (the     *)
(* empty string of a body-less response), "detail" (an object carrying     *)
(* error.message), "object" (an object without error.message).             *)
(***************************************************************************)
Statuses == {400, 401, 404, 429, 500, 501}

DataKinds == {"null", "empty", "detail", "object"}

\* body of a successful response: "content" (choices[0].message.content is
\* the text), "nocontent" (content null or ''), "nochoice" (choices is []),
\* "nochoices" (data.choices is undefined), "nodata" (data is undefined)
Bodies == {"content", "nocontent", "nochoice", "nochoices", "nodata"}

NoText == <<>>

Outcome(kind, status, data, body, text) ==
    [kind |-> kind, status |-> status, data |-> data, body |-> body, text |-> text]

OkOutcomes ==
    {Outcome("ok", 200, "object", "content", c) : c \in Contents \ {NoText}}
    \cup {Outcome("ok", 200, "object", b, NoText) : b \in Bodies \ {"content"}}

StatusOutcomes ==
    {Outcome("status", s, d, "nodata", NoText) : s \in Statuses, d \in DataKinds}

FailOutcomes ==
    StatusOutcomes
    \cup {Outcome(k, 0, "null", "nodata", NoText) : k \in {"network", "setup", "other"}}

Outcomes == OkOutcomes \cup FailOutcomes

NoErr == Outcome("none", 0, "null", "nodata", NoText)

\* private maxRetries: number = 3
maxRetries == 3

isAxiosError(error) == error.kind \in {"status", "network", "setup"}

isRetryableError(error) ==
    /\ isAxiosError(error)
    /\ error.kind = "status"
    /\ (error.status = 429 \/ error.status >= 500)

shouldRetryOneLess(count, error) == count < maxRetries - 1 /\ isRetryableError(error)

shouldRetryInclusive(count, error) == count <= maxRetries /\ isRetryableError(error)

\* the condition of the retry branch: retryCount < this.maxRetries && ...
shouldRetry(count, error) == count < maxRetries /\ isRetryableError(error)

(***************************************************************************)
(* What a request raises: exc "Error" with a message built by handleError, *)
(* or exc "TypeError" when handleError itself throws.                      *)
(***************************************************************************)
Raised(exc, msg, code, detail) ==
    [exc |-> exc, msg |-> msg, code |-> code, detail |-> detail]

\* The exceptions thrown inside the try block of generateDocumentation when
\* the transport call resolved but no content can be read from it:
\* new Error('Empty response from AI model'), and the TypeError of reading
\* choices[0] of undefined.
EmptyResponseError == Outcome("other", 0, "null", "nocontent", NoText)
ReadTypeError      == Outcome("other", 0, "null", "nochoices", NoText)

handleError(error) ==
    IF isAxiosError(error) /\ error.kind = "status" THEN
        CASE error.status = 400 -> Raised("Error", "Bad Request", 0, error.data)
          [] error.status = 401 -> Raised("Error", "Invalid API key", 0, "")
          [] error.status = 429 -> Raised("Error", "Rate limit exceeded", 0, "")
          [] error.status \in {500, 502, 503, 504} ->
                 Raised("Error", "OpenRouter server error", error.status, "")
          [] OTHER ->
                 \* data.error?.message || JSON.stringify(data)
                 IF error.data = "null"
                 THEN Raised("TypeError", "Cannot read properties", 0, "")
                 ELSE IF error.data = "detail"
                      THEN Raised("Error", "API error", 0, "message")
                      ELSE Raised("Error", "API error", 0, error.data)
    ELSE IF isAxiosError(error) /\ error.kind = "network" THEN
        Raised("Error", "Network error", 0, "")
    ELSE
        Raised("Error", "Unexpected error", 0, error.body)

NoRaise == Raised("none", "", 0, "")

NoResult == [status |-> "none", text |-> NoText, error |-> NoRaise]

Returned(text) == [status |-> "returned", text |-> text, error |-> NoRaise]

Threw(e) == [status |-> "raised", text |-> NoText, error |-> e]

(***************************************************************************)
(* The transport's behaviour during one request: a run of retryable        *)
(* failures followed by a last outcome, which it repeats if asked again.   *)
(***************************************************************************)
\* Longest run of retryable failures before the last outcome of a script.
MaxFailures == 4

RetryableFailures ==
    {Outcome("status", s, "detail", "nodata", NoText) : s \in {429, 500}}

Scripts ==
    {p \o <<o>> : p \in SeqsUpTo(RetryableFailures, MaxFailures), o \in Outcomes}

Answer(i) == IF i <= Len(script) THEN script[i] ELSE script[Len(script)]

ClientIdle ==
    /\ cpc = "idle"
    /\ req = "none"
    /\ retryCount = 0
    /\ script = <<>>
    /\ calls = <<>>
    /\ sleeps = <<>>
    /\ lastErr = NoErr
    /\ result = NoResult
    /\ tc = "none"

\* generateDocumentation / generateBatchDocumentation up to the first await
StartRequest ==
    /\ cpc = "idle"
    /\ \E r \in {"single", "batch"} : req' = r
    /\ \E sc \in Scripts : script' = sc
    /\ cpc' = "send"
    /\ retryCount' = 0
    /\ calls' = <<>>
    /\ sleeps' = <<>>
    /\ lastErr' = NoErr
    /\ result' = NoResult
    /\ tc' = "none"

\* The continuation of generateDocumentation after sendRequestWithRetry
\* resolved with a response.
AfterResponse(o) ==
    CASE o.body = "content" -> Returned(extractYAML(o.text))
      [] o.body \in {"nocontent", "nochoice"} -> Threw(handleError(EmptyResponseError))
      [] OTHER -> Threw(handleError(ReadTypeError))

RethrownWrapped(count, error) ==
    IF count >= maxRetries THEN Outcome("other", 0, "null", "nodata", NoText) ELSE error

\* throw error: what sendRequestWithRetry rethrows when it does not retry
Rethrown(count, error) == error

\* sendRequestWithRetry: the await of client.post settles
TransportCall ==
    /\ cpc = "send"
    /\ LET o == Answer(Len(calls) + 1) IN
        /\ calls' = Append(calls, o)
        /\ IF o.kind = "ok"
           THEN /\ result' = AfterResponse(o)
                /\ cpc' = "done"
                /\ UNCHANGED lastErr
           ELSE /\ lastErr' = o
                /\ IF shouldRetry(retryCount, o)
                   THEN /\ cpc' = "sleep"
                        /\ UNCHANGED result
                   ELSE /\ cpc' = "done"
                        /\ result' = Threw(handleError(Rethrown(retryCount, o)))
    /\ UNCHANGED <<req, retryCount, script, sleeps, tc>>

\* A backoff whose delay grows by one second per retry
BackoffSleepLinear ==
    /\ cpc = "sleep"
    /\ sleeps' = Append(sleeps, (retryCount + 1) * 1000)
    /\ retryCount' = retryCount + 1
    /\ cpc' = "send"
    /\ UNCHANGED <<req, script, calls, lastErr, result, tc>>

\* await this.sleep(Math.pow(2, retryCount) * 1000), then the recursive call
BackoffSleep ==
    /\ cpc = "sleep"
    /\ sleeps' = Append(sleeps, (2 ^ retryCount) * 1000)
    /\ retryCount' = retryCount + 1
    /\ cpc' = "send"
    /\ UNCHANGED <<req, script, calls, lastErr, result, tc>>

\* The request is over; the client object serves the next one.
FinishRequest ==
    /\ cpc \in {"done", "tested"}
    /\ cpc' = "idle"
    /\ req' = "none"
    /\ retryCount' = 0
    /\ script' = <<>>
    /\ calls' = <<>>
    /\ sleeps' = <<>>
    /\ lastErr' = NoErr
    /\ result' = NoResult
    /\ tc' = "none"

\* testConnection() of the client that uses PromptBuilder: the catch block
\* returns false; response.data.choices?.[0]?.message?.content decides
testConnectionResult(o) ==
    IF o.kind = "ok" /\ o.body = "content" THEN "true" ELSE "false"

\* testConnection() of services/OpenRouterClient.ts: the catch block
\* re-throws, also the TypeError of reading choices of an undefined data
testConnectionServicesResult(o) ==
    IF o.kind = "ok"
    THEN IF o.body = "content" THEN "true"
         ELSE IF o.body = "nodata" THEN "raised" ELSE "false"
    ELSE "raised"

TestConnection ==
    /\ cpc = "idle"
    /\ \E o \in Outcomes :
        /\ calls' = <<o>>
        /\ tc' = testConnectionResult(o)
    /\ cpc' = "tested"
    /\ UNCHANGED <<req, retryCount, script, sleeps, lastErr, result>>

TestConnectionServices ==
    /\ cpc = "idle"
    /\ \E o \in Outcomes :
        /\ calls' = <<o>>
        /\ tc' = testConnectionServicesResult(o)
    /\ cpc' = "tested"
    /\ UNCHANGED <<req, retryCount, script, sleeps, lastErr, result>>


(***************************************************************************)
(* Route paths.  A path is a sequence of segments: a literal segment       *)
(* (users), an Express parameter (:id or :id?), or, in an OpenAPI path     *)
(* template, a brace parameter ({id}).                                     *)
(***************************************************************************)
Lit(name) == [kind |-> "lit", name |-> name, opt |-> FALSE]

Param(name, opt) == [kind |-> "param", name |-> name, opt |-> opt]

Brace(name, opt) == [kind |-> "brace", name |-> name, opt |-> opt]

PathUsers == <<Lit("users")>>

PathUserById == <<Lit("users"), Param("id", FALSE)>>

PathById == <<Param("id", TRUE)>>

ExpressPaths == {PathUsers, PathUserById, PathById}

(***************************************************************************)
(* Source files, as the sequence of call expressions the traversal visits. *)
(* A call is  obj.prop(arg, ..., handler).  The handler is an identifier,  *)
(* an inline function, or some other expression; the body of an inline     *)
(* function is modelled by the response calls it contains, in the order    *)
(* the recursive visit meets them, and by whether the visit of the body    *)
(* throws (deep: a nesting the recursion cannot descend).                  *)
(***************************************************************************)
\* res.status(code).m(...), res.status(variable).m(...), res.m(...)
ResponseCall(shape, code, m) == [shape |-> shape, code |-> code, m |-> m]

StatusCodes == {200, 404, 999}

ResponseMethods == {"json", "send", "end"}

ResponseCalls ==
    {ResponseCall("status", c, m) : c \in StatusCodes, m \in ResponseMethods}
    \cup {ResponseCall("statusVar", 0, "json")}
    \cup {ResponseCall("bare", 0, m) : m \in ResponseMethods}

Handler(kind, name, resp, deep) ==
    [kind |-> kind, name |-> name, resp |-> resp, deep |-> deep]

IdentHandler == Handler("ident", "getUsers", <<>>, FALSE)

OtherHandler == Handler("other", "", <<>>, FALSE)

\* Most response calls in one handler body.
MaxRespCalls == 2

InlineHandlers ==
    {Handler("inline", "", r, d) : r \in SeqsUpTo(ResponseCalls, MaxRespCalls), d \in BOOLEAN}

\* The handlers of the files with several calls.
FewHandlers ==
    { IdentHandler, OtherHandler,
      Handler("inline", "", <<>>, FALSE),
      Handler("inline", "", <<ResponseCall("status", 404, "json")>>, FALSE),
      Handler("inline", "", <<ResponseCall("status", 404, "json")>>, TRUE) }

Call(obj, prop, arg, path, handler) ==
    [obj |-> obj, prop |-> prop, arg |-> arg, path |-> path, handler |-> handler]

Objects == {"router", "app", "server"}

Props == {"get", "post", "use"}

\* first argument: a string literal, or anything else (an identifier)
ArgKinds == {"string", "ident"}

SourceFile(parse, cs) == [parse |-> parse, calls |-> cs]

\* Most call expressions in one source file.
MaxCalls == 2

FewCalls ==
    {Call(o, pr, a, PathUsers, h) :
        o \in {"router", "server"}, pr \in Props, a \in ArgKinds, h \in FewHandlers}

RichCalls ==
    {Call("app", "get", a, pa, h) :
        a \in ArgKinds, pa \in ExpressPaths,
        h \in InlineHandlers \cup {IdentHandler, OtherHandler}}

\* Files of several calls with few handler shapes.
WalkFiles ==
    {SourceFile(ps, cs) : ps \in {"ok", "fail"}, cs \in SeqsUpTo(FewCalls, MaxCalls)}

\* Files of one call with every handler shape.
SingleCallFiles == {SourceFile("ok", <<c>>) : c \in RichCalls}

NoFile == SourceFile("ok", <<>>)

toUpperCase(prop) ==
    CASE prop = "get" -> "GET"
      [] prop = "post" -> "POST"
      [] OTHER -> "USE"

isValidHttpMethodAnyVerb(method) ==
    method \in {"GET", "POST", "PUT", "DELETE", "PATCH", "OPTIONS", "HEAD", "USE"}

isValidHttpMethod(method) ==
    method \in {"GET", "POST", "PUT", "DELETE", "PATCH", "OPTIONS", "HEAD"}

getStatusDescription(statusCode) ==
    CASE statusCode = 200 -> "Success"
      [] statusCode = 201 -> "Created"
      [] statusCode = 204 -> "No Content"
      [] statusCode = 400 -> "Bad Request"
      [] statusCode = 401 -> "Unauthorized"
      [] statusCode = 403 -> "Forbidden"
      [] statusCode = 404 -> "Not Found"
      [] statusCode = 500 -> "Internal Server Error"
      [] OTHER -> "Unknown"

RouteResponse(code, description, contentType) ==
    [statusCode |-> code, description |-> description, contentType |-> contentType]

DefaultResponse == RouteResponse(200, "Success", "application/json")

HasStatus(responses, code) == \E i \in 1..Len(responses) : responses[i].statusCode = code

visitResponseCallNoDedup(responses, rc) ==
    IF rc.shape = "status" THEN
        Append(responses,
               RouteResponse(rc.code, getStatusDescription(rc.code),
                             IF rc.m = "send" THEN "text/plain" ELSE "application/json"))
    ELSE IF rc.shape = "bare" /\ rc.m \in {"json", "send"} THEN
        Append(responses,
               RouteResponse(200, "Success",
                             IF rc.m = "json" THEN "application/json" ELSE "text/plain"))
    ELSE responses

\* One step of visitNode of extractResponseInfo: the node is the response
\* call rc, responses is the list built so far (foundStatuses is the set of
\* its status codes).
visitResponseCall(responses, rc) ==
    IF rc.shape = "status" THEN
        IF ~HasStatus(responses, rc.code)
        THEN Append(responses,
                    RouteResponse(rc.code, getStatusDescription(rc.code),
                                  IF rc.m = "send" THEN "text/plain" ELSE "application/json"))
        ELSE responses
    ELSE IF rc.shape = "bare" /\ rc.m \in {"json", "send"} /\ ~HasStatus(responses, 200) THEN
        Append(responses,
               RouteResponse(200, "Success",
                             IF rc.m = "json" THEN "application/json" ELSE "text/plain"))
    ELSE responses

RECURSIVE visitResponseCalls(_, _)
visitResponseCalls(responses, rcs) ==
    IF rcs = <<>> THEN responses
    ELSE visitResponseCalls(visitResponseCall(responses, Head(rcs)), Tail(rcs))

extractResponseInfo(handler) ==
    LET responses == visitResponseCalls(<<>>, handler.resp)
    IN  IF Len(responses) > 0 THEN responses ELSE <<DefaultResponse>>

RouteParameter(name, type, required) ==
    [name |-> name, type |-> type, required |-> required, dataType |-> "string"]

RECURSIVE extractPathParameters(_)
extractPathParameters(routePath) ==
    IF routePath = <<>> THEN <<>>
    ELSE LET seg == Head(routePath)
             rest == extractPathParameters(Tail(routePath))
         IN  IF seg.kind = "param"
             THEN <<RouteParameter(seg.name, "path", ~seg.opt)>> \o rest
             ELSE rest

RouteInfo(method, path, handler, parameters, responses) ==
    [method |-> method, path |-> path, handler |-> handler,
     parameters |-> parameters, responses |-> responses]

\* What extractRouteInfo gives back: a route, null, or (never, in this code)
\* an exception.
Extracted(tag, route) == [tag |-> tag, route |-> route]

NoRoute == RouteInfo("GET", <<>>, "", <<>>, <<>>)

NullRoute == Extracted("null", NoRoute)

ThrownRoute == Extracted("throw", NoRoute)

\* The responses extractRouteInfo reads from the handler argument.
handlerResponses(handler) ==
    IF handler.kind = "inline" THEN extractResponseInfo(handler) ELSE <<>>

extractRouteInfoNoCatch(node, method) ==
    IF node.arg # "string" THEN NullRoute
    ELSE IF node.handler.kind = "inline" /\ node.handler.deep THEN ThrownRoute
    ELSE Extracted("route",
             RouteInfo(method, node.path,
                       CASE node.handler.kind = "ident" -> node.handler.name
                         [] node.handler.kind = "inline" -> "inline function"
                         [] OTHER -> "anonymous",
                       extractPathParameters(node.path),
                       IF Len(handlerResponses(node.handler)) > 0
                       THEN handlerResponses(node.handler) ELSE <<DefaultResponse>>))

extractRouteInfo(node, method) ==
    IF node.arg # "string" THEN NullRoute
    ELSE IF node.handler.kind = "inline" /\ node.handler.deep THEN NullRoute
    ELSE LET responses == handlerResponses(node.handler)
             handlerName == CASE node.handler.kind = "ident" -> node.handler.name
                              [] node.handler.kind = "inline" -> "inline function"
                              [] OTHER -> "anonymous"
         IN  Extracted("route",
                 RouteInfo(method, node.path, handlerName,
                           extractPathParameters(node.path),
                           IF Len(responses) > 0 THEN responses ELSE <<DefaultResponse>>))

\* The catch block of parseRoutes: return []
catchParseError == [threw |-> FALSE, routes |-> <<>>]

ParserIdle ==
    /\ ppc = "start"
    /\ pin = NoFile
    /\ pidx = 0
    /\ routes = <<>>
    /\ presult = <<>>
    /\ pthrew = FALSE

\* parser.parse(content, ...) inside the try block of parseRoutes
ParseSource ==
    /\ ppc = "start"
    /\ pidx' = 0
    /\ routes' = <<>>
    /\ IF pin.parse = "ok"
       THEN /\ ppc' = "walk"
            /\ UNCHANGED <<presult, pthrew>>
       ELSE /\ ppc' = "done"
            /\ presult' = catchParseError.routes
            /\ pthrew' = catchParseError.threw
    /\ UNCHANGED pin

\* The CallExpression visitor of parseRoutes, on the next call of the file
VisitCall ==
    /\ ppc = "walk"
    /\ pidx < Len(pin.calls)
    /\ LET node == pin.calls[pidx + 1]
           method == toUpperCase(node.prop)
           candidate == node.obj \in {"router", "app"} /\ isValidHttpMethod(method)
           route == extractRouteInfo(node, method)
       IN  IF candidate /\ route.tag = "throw"
           THEN /\ ppc' = "done"
                /\ presult' = catchParseError.routes
                /\ pthrew' = catchParseError.threw
                /\ UNCHANGED routes
           ELSE /\ routes' = IF candidate /\ route.tag = "route"
                             THEN Append(routes, route.route)
                             ELSE routes
                /\ UNCHANGED <<ppc, presult, pthrew>>
    /\ pidx' = pidx + 1
    /\ UNCHANGED pin

\* return routes, after the traversal
ReturnRoutes ==
    /\ ppc = "walk"
    /\ pidx = Len(pin.calls)
    /\ ppc' = "done"
    /\ presult' = routes
    /\ UNCHANGED <<pin, pidx, routes, pthrew>>


(***************************************************************************)
(* The documentation synthesizer (OpenAPIGenerator).                       *)
(* document.paths is a function from path keys to path items; a path item  *)
(* is a function from its keys (get, post, ...) to the values stored       *)
(* there.  A value is an operation object (kind "op"), null (kind "null")  *)
(* or a scalar (kind "scalar").                                            *)
(***************************************************************************)
\* A key of document.paths that is not a path: "undefined", "0"
JunkKey(name) == <<[kind |-> "junk", name |-> name, opt |-> FALSE]>>

OpenApiUsers == <<Lit("users")>>

OpenApiUserById == <<Lit("users"), Brace("id", FALSE)>>

EmptyItem == [k \in {} |-> 0]

EmptyPaths == [k \in {} |-> EmptyItem]

Operation(kind, src, summary, operationId, optags) ==
    [kind |-> kind, src |-> src, summary |-> summary,
     operationId |-> operationId, tags |-> optags]

\* an operation object of an AI fragment, with its tags array
AiOp(optags) == Operation("op", "ai", <<"ai">>, <<>>, optags)

NullOp == Operation("null", "ai", <<>>, <<>>, <<>>)

ScalarOp == Operation("scalar", "ai", <<>>, <<>>, <<>>)

\* /:([a-zA-Z_][a-zA-Z0-9_]*)/g -> '{$1}': a trailing ? stays in place
convertPathToOpenAPI(expressPath) ==
    [i \in 1..Len(expressPath) |->
        IF expressPath[i].kind = "param"
        THEN Brace(expressPath[i].name, expressPath[i].opt)
        ELSE expressPath[i]]

toLowerCase(method) ==
    CASE method = "GET" -> "get"
      [] method = "POST" -> "post"
      [] OTHER -> "use"

\* the text of a segment of an Express path
SegText(seg) ==
    CASE seg.kind = "lit" -> seg.name
      [] seg.kind = "param" /\ seg.opt -> ":id?"
      [] OTHER -> ":id"

\* charAt(0).toUpperCase() + slice(1)
Capitalize(text) == IF text = "users" THEN "Users" ELSE text

getActionFromMethod(method) ==
    CASE method = "GET" -> "Get"
      [] method = "POST" -> "Create"
      [] OTHER -> "Update"

getResourceFromPath(path) ==
    IF path = <<>> THEN "Resource" ELSE Capitalize(SegText(path[1]))

generateSummary(route) ==
    <<getActionFromMethod(route.method), getResourceFromPath(route.path)>>

\* A literal segment with a colon that starts no parameter name: /12:30
ColonLiteral == Lit("12:30")

\* seg includes ':'
IncludesColon(seg) == seg.kind = "param" \/ seg = ColonLiteral

generateOperationId(route) ==
    LET hasParam == \E i \in 1..Len(route.path) : IncludesColon(route.path[i])
    IN  <<toLowerCase(route.method), getResourceFromPath(route.path)>>
        \o (IF hasParam THEN <<"ById">> ELSE <<>>)

extractTagsFromPath(path) ==
    LET nonParamSegments == SelectSeq(path, LAMBDA seg : seg.kind = "lit")
    IN  IF Len(nonParamSegments) = 0
        THEN <<"Default">>
        ELSE <<Capitalize(nonParamSegments[1].name)>>

buildOperation(route) ==
    Operation("op", "manual",
              generateSummary(route),
              IF route.handler # "anonymous" /\ route.handler # "inline function"
              THEN <<route.handler>>
              ELSE generateOperationId(route),
              extractTagsFromPath(route.path))

\* The route records given to the generator.
GenRoute(method, path, handler) ==
    RouteInfo(method, path, handler, extractPathParameters(path), <<DefaultResponse>>)

GenRoutes ==
    { GenRoute("GET", PathUsers, "getUsers"),
      GenRoute("POST", PathUsers, "inline function"),
      GenRoute("GET", PathById, "anonymous") }

\* Most route records in one addRoutes call.
MaxRoutes == 2

RECURSIVE buildPathItem(_)
buildPathItem(pathRoutes) ==
    IF pathRoutes = <<>> THEN EmptyItem
    ELSE LET n == Len(pathRoutes)
             route == pathRoutes[n]
         IN  (toLowerCase(route.method) :> buildOperation(route))
             @@ buildPathItem(SubSeq(pathRoutes, 1, n - 1))

\* groupRoutesByPath: the routes of one OpenAPI path, in the given order
groupRoutesByPath(rs, path) ==
    SelectSeq(rs, LAMBDA r : convertPathToOpenAPI(r.path) = path)

Tag(name, description) == [name |-> name, description |-> description]

RelatedTag(name) == Tag(name, "related endpoints")

HasTagNever(ts, name) == FALSE

HasTag(ts, name) == \E i \in 1..Len(ts) : ts[i].name = name

\* Array.from(tagSet) of extractTags: the first-segment tags of the routes,
\* without 'Default', each once, in order of first occurrence
RECURSIVE tagSetOf(_)
tagSetOf(rs) ==
    IF rs = <<>> THEN <<>>
    ELSE LET n == Len(rs)
             before == tagSetOf(SubSeq(rs, 1, n - 1))
             tag == extractTagsFromPath(rs[n].path)[1]
         IN  IF tag # "Default" /\ ~HasTag(before, tag)
             THEN Append(before, RelatedTag(tag))
             ELSE before

extractTags(rs) ==
    LET tagArray == tagSetOf(rs)
    IN  IF Len(tagArray) = 0 THEN <<Tag("Default", "Default endpoints")>> ELSE tagArray

addRoutesPathsOnly(ps, rs) ==
    LET keys == {convertPathToOpenAPI(rs[i].path) : i \in 1..Len(rs)}
    IN  [k \in keys |-> buildPathItem(groupRoutesByPath(rs, k))]

\* The body of addRoutes on document.paths
addRoutesPaths(ps, rs) ==
    LET keys == {convertPathToOpenAPI(rs[i].path) : i \in 1..Len(rs)}
    IN  [k \in keys |-> buildPathItem(groupRoutesByPath(rs, k))] @@ ps

\* addRoute: the manual fallback of addRouteWithAIDoc
addRoute(ps, route) ==
    LET path == convertPathToOpenAPI(route.path)
        item == IF path \in DOMAIN ps THEN ps[path] ELSE EmptyItem
    IN  (path :> ((toLowerCase(route.method) :> buildOperation(route)) @@ item)) @@ ps

(***************************************************************************)
(* What yaml.load gives for the text of an AI fragment.                    *)
(*   parse "throws":  the text is not YAML                                 *)
(*   parse "nothing": undefined or null (empty text, ~)                    *)
(*   parse "value":   a value, given by its own enumerable keys in order   *)
(*                    and the value under each: no entry for a number, a   *)
(*                    boolean, [] or {}; the indices for a string or a     *)
(*                    list; the keys for a mapping.                        *)
(* The value under a key is undefined, null, a number, a string or a       *)
(* mapping (kind "ops") from keys to values stored in the path item.       *)
(***************************************************************************)
Val(kind, ops) == [kind |-> kind, ops |-> ops]

Undefined == Val("undefined", <<>>)

Entry(key, val) == [key |-> key, val |-> val]

AiDoc(shape, parse, entries) == [shape |-> shape, parse |-> parse, entries |-> entries]

OpsOf(es) == Val("ops", es)

UsersGet(optags) == Entry(OpenApiUsers, OpsOf(<<Entry("get", AiOp(optags))>>))

UsersPost(optags) == Entry(OpenApiUsers, OpsOf(<<Entry("post", AiOp(optags))>>))

AiDocs ==
    { AiDoc("unparsable", "throws", <<>>),
      AiDoc("empty", "nothing", <<>>),
      AiDoc("scalar", "value", <<>>),
      AiDoc("scalar", "value", <<Entry(JunkKey("0"), Val("string", <<>>))>>),
      AiDoc("list", "value", <<Entry(JunkKey("0"), Val("string", <<>>)),
                               Entry(JunkKey("1"), Val("string", <<>>))>>),
      AiDoc("list", "value", <<Entry(JunkKey("0"), Val("null", <<>>))>>),
      AiDoc("badvalue", "value", <<Entry(OpenApiUsers, Val("null", <<>>))>>),
      AiDoc("badvalue", "value", <<Entry(OpenApiUsers, Val("number", <<>>))>>),
      AiDoc("badvalue", "value",
            <<Entry(OpenApiUsers, OpsOf(<<Entry("get", NullOp)>>))>>),
      AiDoc("badvalue", "value",
            <<Entry(OpenApiUsers, OpsOf(<<Entry("post", AiOp(<<"Admin", "Admin">>)),
                                          Entry("get", NullOp)>>))>>),
      AiDoc("multi", "value", <<UsersGet(<<"Users", "Admin">>),
                                Entry(OpenApiUserById, OpsOf(<<Entry("get", AiOp(<<"Users">>))>>))>>),
      AiDoc("wellformed", "value", <<UsersGet(<<>>)>>),
      AiDoc("wellformed", "value", <<UsersGet(<<"Users", "Admin">>)>>),
      AiDoc("wellformed", "value", <<UsersPost(<<"Admin", "Admin">>)>>),
      AiDoc("wellformed", "value",
            <<Entry(OpenApiUsers, OpsOf(<<Entry("get", AiOp(<<"Users", "Admin">>)),
                                          Entry("post", AiOp(<<"Admin", "Admin">>))>>))>>),
      AiDoc("wellformed", "value",
            <<Entry(OpenApiUserById, OpsOf(<<Entry("get", AiOp(<<"Users">>))>>))>>) }

\* What Object.assign and Object.values see of a value: its own enumerable
\* properties, in order
OwnEntries(v) ==
    CASE v.kind = "ops" -> v.ops
      [] v.kind = "string" -> <<Entry("0", ScalarOp)>>
      [] OTHER -> <<>>

RECURSIVE assignEntries(_, _)
assignEntries(item, es) ==
    IF es = <<>> THEN item
    ELSE assignEntries((Head(es).key :> Head(es).val) @@ item, Tail(es))

\* Object.assign(this.document.paths[pathKey], operations)
ObjectAssign(item, v) == assignEntries(item, OwnEntries(v))

RECURSIVE pushNewTags(_, _)
pushNewTags(ts, names) ==
    IF names = <<>> THEN ts
    ELSE pushNewTags(IF HasTag(ts, Head(names)) THEN ts
                     ELSE Append(ts, RelatedTag(Head(names))),
                     Tail(names))

Tagged(threw, ts) == [threw |-> threw, tags |-> ts]

\* the forEach over Object.values(operations): reading .tags of null throws,
\* after the tags of the operations before it were pushed
RECURSIVE forEachOperation(_, _)
forEachOperation(ts, es) ==
    IF es = <<>> THEN Tagged(FALSE, ts)
    ELSE LET operation == Head(es).val
         IN  IF operation.kind = "null" THEN Tagged(TRUE, ts)
             ELSE forEachOperation(pushNewTags(ts, operation.tags), Tail(es))

extractTagsFromAIDoc(ts, operations) ==
    IF operations.kind \in {"undefined", "null"}
    THEN Tagged(TRUE, ts)
    ELSE forEachOperation(ts, OwnEntries(operations))

\* The document after addRouteWithAIDoc(route, text), text loading as doc
AfterAIDoc(fellBack, ps, ts) == [fellBack |-> fellBack, paths |-> ps, tags |-> ts]

addRouteWithAIDoc(ps, ts, route, doc) ==
    IF doc.parse # "value"
    THEN AfterAIDoc(TRUE, addRoute(ps, route), ts)
    ELSE LET pathKey == IF doc.entries = <<>> THEN JunkKey("undefined")
                        ELSE doc.entries[1].key
             operations == IF doc.entries = <<>> THEN Undefined
                           ELSE doc.entries[1].val
             created == IF pathKey \in DOMAIN ps THEN ps
                        ELSE (pathKey :> EmptyItem) @@ ps
             merged == [created EXCEPT ![pathKey] = ObjectAssign(@, operations)]
             tagged == extractTagsFromAIDoc(ts, operations)
         IN  IF tagged.threw
             THEN AfterAIDoc(TRUE, addRoute(merged, route), tagged.tags)
             ELSE AfterAIDoc(FALSE, merged, tagged.tags)

\* The latest call: its name, whether addRouteWithAIDoc took its fallback,
\* and (ThrownCall) whether the call raised.
LastCall(op, fellBack) == [op |-> op, fellBack |-> fellBack, threw |-> FALSE]

ThrownCall(op) == [op |-> op, fellBack |-> FALSE, threw |-> TRUE]

\* description || 'Auto-generated API documentation'
Info(title, version, description) ==
    [title |-> title, version |-> version,
     description |-> IF description = "" THEN "Auto-generated API documentation"
                     ELSE description]

Server(url, description) == [url |-> url, description |-> description]

GenIdle ==
    /\ paths = EmptyPaths
    /\ tags = <<>>
    /\ glast = LastCall("new", FALSE)
    /\ schemas = {}
    /\ gfinal = 0
    /\ openapi = "3.1.0"
    /\ info = Info("REST API Documentation", "1.0.0", "")
    /\ servers = <<Server("http://localhost:3000", "Development server")>>
    /\ added = {}

AddRoutes(rs) ==
    /\ paths' = addRoutesPaths(paths, rs)
    /\ tags' = extractTags(rs)
    /\ glast' = LastCall("addRoutes", FALSE)
    /\ gfinal' = 0
    /\ UNCHANGED <<schemas, openapi, info, servers>>

AddRouteWithAIDoc(route, doc) ==
    LET after == addRouteWithAIDoc(paths, tags, route, doc)
    IN  /\ paths' = after.paths
        /\ tags' = after.tags
        /\ glast' = LastCall("addRouteWithAIDoc", after.fellBack)
        /\ gfinal' = 0
        /\ UNCHANGED <<schemas, openapi, info, servers>>

\* The values stored in the path items of the document.
PathItemValues(ps) ==
    UNION {{ps[p][m] : m \in DOMAIN ps[p]} : p \in DOMAIN ps}

\* generateSchemaName over the response schemas of an operation: an operation
\* built by buildOperation answers with { message } objects (buildResponses),
\* the operations of the AI fragments carry no object schema.
schemaNamesOf(operation) ==
    IF operation.kind = "op" /\ operation.src = "manual"
    THEN {"ErrorResponse"}
    ELSE {}

Scanned(threw, names) == [threw |-> threw, names |-> names]

extractSchemasToComponentsFresh(ps, known) ==
    Scanned(FALSE, UNION {schemaNamesOf(operation) :
                             operation \in PathItemValues(ps)} \ known)

\* extractSchemasToComponents: reading .responses of a null operation throws
\* before anything is stored
extractSchemasToComponents(ps, known) ==
    IF \E operation \in PathItemValues(ps) : operation.kind = "null"
    THEN Scanned(TRUE, known)
    ELSE Scanned(FALSE, known \cup UNION {schemaNamesOf(operation) :
                                              operation \in PathItemValues(ps)})

finalizeTagsTwice(ts) ==
    Append(ts, Tag("Default", "API endpoints"))

finalizeTags(ts) ==
    IF Len(ts) = 0 THEN <<Tag("Default", "API endpoints")>> ELSE ts

\* Most finalizeDocument calls in a row.
MaxFinalize == 2

FinalizeDocument ==
    /\ gfinal < MaxFinalize
    /\ gfinal' = gfinal + 1
    /\ LET scanned == extractSchemasToComponents(paths, schemas)
       IN  IF scanned.threw
           THEN /\ glast' = ThrownCall("finalizeDocument")
                /\ UNCHANGED <<tags, schemas>>
           ELSE /\ glast' = LastCall("finalizeDocument", FALSE)
                /\ schemas' = scanned.names
                /\ tags' = finalizeTags(tags)
    /\ UNCHANGED <<paths, openapi, info, servers>>

\* setServer(url, description?): description || 'API Server'
SetServer(url, description) ==
    /\ servers' = <<Server(url, IF description = "" THEN "API Server" ELSE description)>>
    /\ glast' = LastCall("setServer", FALSE)
    /\ gfinal' = 0
    /\ UNCHANGED <<paths, tags, schemas, openapi, info>>

SetInfo(title, version, description) ==
    /\ info' = Info(title, version, description)
    /\ glast' = LastCall("setInfo", FALSE)
    /\ gfinal' = 0
    /\ UNCHANGED <<paths, tags, schemas, openapi, servers>>

\* JSON.stringify leaves out the members whose value is undefined
Stringified(item) ==
    [m \in {k \in DOMAIN item : item[k].kind # "undefined"} |-> item[m]]

\* JSON.parse(toJSON()): the document as its JSON text gives it back
toJSON ==
    [openapi |-> openapi, info |-> info, servers |-> servers,
     paths |-> [p \in DOMAIN paths |-> Stringified(paths[p])],
     components |-> [schemas |-> schemas], tags |-> tags]

(***************************************************************************)
(* The file watcher service (FileWatcherService) and the timers of the     *)
(* event loop.  Time is counted in ticks of the clock; setTimeout(f, d)    *)
(* at time t makes a timer that runs f at time t + d.                      *)
(***************************************************************************)
\* const patterns of start()
Patterns ==
    <<"routes/**/*.js", "routes/**/*.ts", "src/routes/**/*.js", "src/routes/**/*.ts",
      "sample-express-project/routes/**/*.js", "sample-express-project/routes/**/*.ts">>

\* Most start() calls that create watchers with no stop() in between.
MaxStarts == 2

\* Last tick of the clock.
MaxTime == 3

\* Most file events delivered to the service.
MaxEvents == 2

\* Values given to setDebounceDelay, in ticks.
Delays == {1, 2}

WatchedFiles == {"routes/users.js", "routes/products.js"}

EventKinds == {"change", "create", "delete"}

\* A timer of the event loop: it calls onChange(path) at time due; id is the
\* number of the file event whose debounce call made it.
Timer(path, due, id) == [path |-> path, due |-> due, id |-> id]

\* debounceTimer = undefined
NoTimer == Timer("", 0, 0)

FileEventRecord(path, at, delay) == [path |-> path, at |-> at, delay |-> delay]

\* One invocation of onChange: its argument, its time, the file event whose
\* timer made it, and whether stop() had returned with no start() since.
Invocation(path, at, event, afterStop) ==
    [path |-> path, at |-> at, event |-> event, afterStop |-> afterStop]

WatcherIdle ==
    /\ watchers = <<>>
    /\ debounceTimer = NoTimer
    /\ debounceDelay = 2
    /\ isEnabled = TRUE
    /\ timers = {}
    /\ now = 0
    /\ events = <<>>
    /\ fired = <<>>
    /\ superseded = {}
    /\ cancelled = {}
    /\ stopped = FALSE

\* clearTimeout(handle): the timer leaves the event loop if it is still there
clearTimeout(pending, handle) == pending \ {handle}

\* The watchers after the patterns.forEach of start()
startWatchers(ws) == ws \o Patterns

\* start()
Start ==
    /\ Len(watchers) < MaxStarts * Len(Patterns)
    /\ watchers' = IF isEnabled THEN startWatchers(watchers) ELSE watchers
    /\ stopped' = FALSE
    /\ UNCHANGED <<debounceTimer, debounceDelay, isEnabled, timers, now, events,
                   fired, superseded, cancelled>>

\* stop() that leaves a pending debounce timer in the event loop
stopTimersKept(pending, handle) == pending

\* The timers of the event loop after stop()
stopTimers(pending, handle) ==
    IF handle # NoTimer THEN clearTimeout(pending, handle) ELSE pending

\* stop()
Stop ==
    /\ watchers' = <<>>
    /\ timers' = stopTimers(timers, debounceTimer)
    /\ debounceTimer' = NoTimer
    /\ cancelled' = cancelled \cup {t.id : t \in timers \ timers'}
    /\ stopped' = TRUE
    /\ UNCHANGED <<debounceDelay, isEnabled, now, events, fired, superseded>>

\* setEnabled(enabled): this.isEnabled = enabled, then start() or stop()
SetEnabled(enabled) ==
    /\ isEnabled' = enabled
    /\ IF enabled
       THEN /\ Len(watchers) < MaxStarts * Len(Patterns)
            /\ watchers' = startWatchers(watchers)
            /\ stopped' = FALSE
            /\ UNCHANGED <<debounceTimer, timers, cancelled>>
       ELSE /\ watchers' = <<>>
            /\ timers' = stopTimers(timers, debounceTimer)
            /\ debounceTimer' = NoTimer
            /\ cancelled' = cancelled \cup {t.id : t \in timers \ timers'}
            /\ stopped' = TRUE
    /\ UNCHANGED <<debounceDelay, now, events, fired, superseded>>

\* setDebounceDelay(delay)
SetDebounceDelay(delay) ==
    /\ debounceDelay' = delay
    /\ UNCHANGED <<watchers, debounceTimer, isEnabled, timers, now, events, fired,
                   superseded, cancelled, stopped>>

\* debounce() that does not clear the timer of the previous event
debounceTimersKept(pending, handle, timer) == pending \cup {timer}

\* The timers of the event loop after debounce(filePath)
debounceTimers(pending, handle, timer) ==
    (IF handle # NoTimer THEN clearTimeout(pending, handle) ELSE pending) \cup {timer}

\* onDidChange / onDidCreate / onDidDelete of a live watcher: debounce(uri.fsPath)
FileEvent(kind, filePath) ==
    /\ watchers # <<>>
    /\ Len(events) < MaxEvents
    /\ LET timer == Timer(filePath, now + debounceDelay, Len(events) + 1) IN
        /\ timers' = debounceTimers(timers, debounceTimer, timer)
        /\ debounceTimer' = timer
        /\ superseded' = superseded \cup {t.id : t \in timers \ timers'}
    /\ events' = Append(events, FileEventRecord(filePath, now, debounceDelay))
    /\ UNCHANGED <<watchers, debounceDelay, isEnabled, now, fired, cancelled, stopped>>

\* A timer of the event loop is due: its callback calls this.onChange(filePath)
TimerFires ==
    /\ \E t \in timers :
        /\ t.due <= now
        /\ timers' = timers \ {t}
        /\ fired' = Append(fired, Invocation(t.path, now, t.id, stopped))
    /\ UNCHANGED <<watchers, debounceTimer, debounceDelay, isEnabled, now, events,
                   superseded, cancelled, stopped>>

\* The clock advances; a timer that is due runs before the clock moves on.
Tick ==
    /\ now < MaxTime
    /\ \A t \in timers : t.due > now
    /\ now' = now + 1
    /\ UNCHANGED <<watchers, debounceTimer, debounceDelay, isEnabled, timers, events,
                   fired, superseded, cancelled, stopped>>

(***************************************************************************)
(* DocumentationService.generateDocumentation: one run, position by        *)
(* position between its awaits.  The run owns a new generator, whose       *)
(* document is the one of the variables paths, tags, ...                   *)
(***************************************************************************)
ServiceRoutes ==
    { GenRoute("GET", PathUsers, "getUsers"),
      GenRoute("POST", PathUsers, "inline function") }

\* scanResult.routes
ServiceScans == SeqsUpTo(ServiceRoutes, MaxRoutes)

\* What the AI client resolves with for a route: text that does not load, or
\* the single-path fragment of that route.
ServiceDocs(route) ==
    { AiDoc("unparsable", "throws", <<>>),
      AiDoc("wellformed", "value",
            <<IF route.method = "GET" THEN UsersGet(<<"Users">>)
              ELSE UsersPost(<<"Users">>)>>) }

OutputFiles == <<"openapi.yaml", "openapi.json", "validation-report.txt">>

\* One reading of token.isCancellationRequested at the head of the loop.
Examined(route, set) == [route |-> route, set |-> set]

ServiceIdle ==
    /\ spc = "start"
    /\ scanResult = <<>>
    /\ si = 0
    /\ cancelRequested = FALSE
    /\ examined = <<>>
    /\ aiCalls = <<>>
    /\ written = <<>>
    /\ serr = "none"

\* await scanAndParseRoutes(), the totalRoutes check, new OpenAPIGenerator(...)
ScanRoutes ==
    /\ spc = "start"
    /\ IF Len(scanResult) = 0
       THEN /\ spc' = "failed"
            /\ serr' = "No routes found to document"
            /\ UNCHANGED info
       ELSE /\ spc' = "check"
            /\ serr' = "none"
            /\ info' = Info("REST API Documentation", "1.0.0",
                            "Auto-generated API documentation using AI")
    /\ UNCHANGED <<scanResult, si, cancelRequested, examined, aiCalls, written>>
    /\ UNCHANGED <<paths, tags, glast, schemas, gfinal, openapi, servers>>

\* The user presses Cancel on the progress notification.
Cancel ==
    /\ spc \in {"check", "ai", "sleep"}
    /\ ~cancelRequested
    /\ cancelRequested' = TRUE
    /\ UNCHANGED <<spc, scanResult, si, examined, aiCalls, written, serr, genVars>>

\* A loop head that reads the flag and issues the AI call all the same
CheckCancellationLate ==
    /\ spc = "check"
    /\ si < Len(scanResult)
    /\ examined' = Append(examined, Examined(si + 1, cancelRequested))
    /\ spc' = "ai"
    /\ aiCalls' = Append(aiCalls, si + 1)
    /\ UNCHANGED <<scanResult, si, cancelRequested, written, serr, genVars>>

\* The head of the for loop, i < totalRoutes: the cancellation check, then
\* the call of aiClient.generateDocumentation(route), up to its await
CheckCancellation ==
    /\ spc = "check"
    /\ si < Len(scanResult)
    /\ examined' = Append(examined, Examined(si + 1, cancelRequested))
    /\ IF cancelRequested
       THEN /\ spc' = "failed"
            /\ serr' = "Documentation generation cancelled by user"
            /\ UNCHANGED aiCalls
       ELSE /\ spc' = "ai"
            /\ aiCalls' = Append(aiCalls, si + 1)
            /\ UNCHANGED serr
    /\ UNCHANGED <<scanResult, si, cancelRequested, written, genVars>>

\* The AI call rejects: the catch block of the loop body only logs
AiRejects ==
    /\ spc = "ai"
    /\ spc' = "check"
    /\ si' = si + 1
    /\ UNCHANGED <<scanResult, cancelRequested, examined, aiCalls, written, serr, genVars>>

\* The AI call resolves: generator.addRouteWithAIDoc(route, aiDoc), up to
\* the await of sleep(500)
AiResolves ==
    /\ spc = "ai"
    /\ \E doc \in ServiceDocs(scanResult[si + 1]) : AddRouteWithAIDoc(scanResult[si + 1], doc)
    /\ spc' = "sleep"
    /\ UNCHANGED <<scanResult, si, cancelRequested, examined, aiCalls, written, serr>>

\* sleep(500) is over: i++
SleepOver ==
    /\ spc = "sleep"
    /\ spc' = "check"
    /\ si' = si + 1
    /\ UNCHANGED <<scanResult, cancelRequested, examined, aiCalls, written, serr, genVars>>

\* i = totalRoutes: the loop and withProgress are left; finalizeDocument(),
\* setServer(...), toYAML(), toJSON(), validateDocument(...), up to the await
\* of the first writeFile.  The validation result only feeds messages.
FinalizeRun ==
    /\ spc = "check"
    /\ si = Len(scanResult)
    /\ LET found == extractSchemasToComponents(paths, schemas)
       IN  IF found.threw
           THEN /\ spc' = "failed"
                /\ serr' = "TypeError"
                /\ glast' = ThrownCall("finalizeDocument")
                /\ gfinal' = gfinal + 1
                /\ UNCHANGED <<tags, schemas, servers>>
           ELSE /\ spc' = "write"
                /\ schemas' = found.names
                /\ tags' = finalizeTags(tags)
                /\ servers' = <<Server("http://localhost:3000", "Development server")>>
                /\ glast' = LastCall("setServer", FALSE)
                /\ gfinal' = 0
                /\ UNCHANGED serr
    /\ UNCHANGED <<scanResult, si, cancelRequested, examined, aiCalls, written>>
    /\ UNCHANGED <<paths, openapi, info>>

\* await fs.promises.writeFile(...) of the next output file
WriteFile ==
    /\ spc = "write"
    /\ \E ok \in BOOLEAN :
        IF ok
        THEN /\ written' = Append(written, OutputFiles[Len(written) + 1])
             /\ spc' = IF Len(written) + 1 = Len(OutputFiles) THEN "done" ELSE "write"
             /\ UNCHANGED serr
        ELSE /\ spc' = "failed"
             /\ serr' = "write failed"
             /\ UNCHANGED written
    /\ UNCHANGED <<scanResult, si, cancelRequested, examined, aiCalls, genVars>>

(***************************************************************************)
(* DocumentationService.generateForChangedFile: the auto-sync callback     *)
(* starts a run for each debounced change and awaits none of them, so two  *)
(* runs can be under way at once.  Both read and write openapi.yaml and    *)
(* openapi.json of the workspace.  A stored document is its paths object:  *)
(* path key -> (method key -> operation).                                  *)
(***************************************************************************)
Runs == {1, 2}

SyncFiles == {"routes/users.js", "routes/admin.js"}

SyncRoute(method, path) == [method |-> method, path |-> path]

\* The routes the parser finds in a file that can be read.
RoutesOf(file) ==
    IF file = "routes/users.js"
    THEN <<SyncRoute("GET", PathUsers), SyncRoute("POST", PathUsers)>>
    ELSE <<SyncRoute("GET", PathUserById)>>

\* An operation of a stored document: the file of its route, and whether it
\* was there before the runs ("old"), comes from an AI fragment of a run
\* ("new") or from generateQuick ("manual").
SyncOp(file, rev) == [file |-> file, rev |-> rev]

\* The documentation on disk before the runs: every route of every file.
ExistingDoc ==
    (OpenApiUsers :> (("get" :> SyncOp("routes/users.js", "old"))
                      @@ ("post" :> SyncOp("routes/users.js", "old"))))
    @@ (OpenApiUserById :> ("get" :> SyncOp("routes/admin.js", "old")))

\* What an AI call does: it rejects, or it resolves with a text that loads
\* as a document without paths, or as the single-path fragment of the route.
SyncOutcomes == {"rejects", "nopaths", "wellformed"}

\* newRouteDoc.paths of the fragment for a route
FragmentPaths(file, route) ==
    convertPathToOpenAPI(route.path) :> (toLowerCase(route.method) :> SyncOp(file, "new"))

\* pathsToRemove.forEach(path => delete existingDoc.paths[path])
removeOldPaths(doc, rs) ==
    [p \in DOMAIN doc \ {rs[i].path : i \in 1..Len(rs)} |-> doc[p]]

\* Object.assign(existingDoc.paths, newRouteDoc.paths): whole path items
mergeFragment(doc, file, route, outcome) ==
    IF outcome = "wellformed" THEN FragmentPaths(file, route) @@ doc ELSE doc

\* generateQuick(): the document of the routes still found, built manually
QuickDoc(gone) ==
    IF gone = "routes/users.js"
    THEN OpenApiUserById :> ("get" :> SyncOp("routes/admin.js", "manual"))
    ELSE OpenApiUsers :> (("get" :> SyncOp("routes/users.js", "manual"))
                          @@ ("post" :> SyncOp("routes/users.js", "manual")))

\* A run: its position, the changed file, changedRoutes, the number of
\* routes handled, existingDoc.paths, and as history the paths it read from
\* disk and the outcomes of its AI calls.
Run(pc, file, rs, i, doc, read, outcomes) ==
    [pc |-> pc, file |-> file, routes |-> rs, i |-> i, doc |-> doc, read |-> read,
     outcomes |-> outcomes]

NoDoc == [p \in {} |-> 0]

IdleRun == Run("idle", "", <<>>, 0, NoDoc, NoDoc, <<>>)

SyncIdle ==
    /\ disk = [yaml |-> ExistingDoc, json |-> ExistingDoc]
    /\ runs = [r \in Runs |-> IdleRun]

\* generateForChangedFile(changedFilePath) up to the settling of parseFile;
\* parseFile gives [] for a file that cannot be read
BeginSync(r, file, readable) ==
    /\ runs[r].pc = "idle"
    /\ runs' = [runs EXCEPT ![r] =
                   IF readable
                   THEN Run("parsed", file, RoutesOf(file), 0, NoDoc, NoDoc, <<>>)
                   ELSE Run("yaml", file, <<>>, 0, QuickDoc(file), NoDoc, <<>>)]
    /\ UNCHANGED disk

\* await readFile(yamlPath), yaml.load, step 4, up to the first AI call
ReadExisting(r) ==
    /\ runs[r].pc = "parsed"
    /\ runs' = [runs EXCEPT ![r].pc = "ai",
                            ![r].read = disk.yaml,
                            ![r].doc = removeOldPaths(disk.yaml, runs[r].routes)]
    /\ UNCHANGED disk

\* The AI call for the next route settles; the fragment is merged; sleep(500)
SyncRouteDone(r, outcome) ==
    /\ runs[r].pc = "ai"
    /\ LET route == runs[r].routes[runs[r].i + 1] IN
        runs' = [runs EXCEPT
                    ![r].doc = mergeFragment(@, runs[r].file, route, outcome),
                    ![r].outcomes = Append(@, outcome),
                    ![r].i = @ + 1,
                    ![r].pc = IF runs[r].i + 1 = Len(runs[r].routes) THEN "yaml" ELSE "ai"]
    /\ UNCHANGED disk

\* await writeFile(yamlPath, yamlContent)
WriteYaml(r) ==
    /\ runs[r].pc = "yaml"
    /\ disk' = [disk EXCEPT !.yaml = runs[r].doc]
    /\ runs' = [runs EXCEPT ![r].pc = "json"]

\* await writeFile(jsonPath, jsonContent), return
WriteJson(r) ==
    /\ runs[r].pc = "json"
    /\ disk' = [disk EXCEPT !.json = runs[r].doc]
    /\ runs' = [runs EXCEPT ![r].pc = "done"]

(***************************************************************************)
(* ParserService.scanAndParseRoutes over the files FileScanner found.      *)
(* A scanned file: whether it can be read, what its text holds, and the    *)
(* source the parser sees.                                                 *)
(*   marker: the text mentions express (express.Router(), require or       *)
(*           import of 'express');                                         *)
(*   spaced: the registrations are written with the object and the method  *)
(*           on separate lines (router, then .get(...) on the next line).  *)
(***************************************************************************)
ScanFile(read, marker, spaced, src) ==
    [read |-> read, marker |-> marker, spaced |-> spaced, src |-> src]

RouteCall == Call("router", "get", "string", PathUsers, IdentHandler)

PostCall == Call("app", "post", "string", PathUserById, IdentHandler)

OtherCall == Call("server", "use", "string", PathUsers, IdentHandler)

ScanSources ==
    { SourceFile("ok", <<RouteCall>>),
      SourceFile("ok", <<PostCall>>),
      SourceFile("fail", <<RouteCall>>),
      SourceFile("ok", <<OtherCall>>) }

ScanFiles ==
    {ScanFile("fail", FALSE, FALSE, SourceFile("ok", <<RouteCall>>))}
    \cup {ScanFile("ok", mk, sp, src) : mk \in BOOLEAN, sp \in BOOLEAN, src \in ScanSources}

\* Most files the scanner finds.
MaxFiles == 2

\* FileScanner.isRoutesFile: the express patterns, or router.METHOD /
\* app.METHOD with METHOD one of get, post, put, delete, patch in one piece
isRoutesFile(file) ==
    \/ file.marker
    \/ /\ ~file.spaced
       /\ \E i \in 1..Len(file.src.calls) :
            /\ file.src.calls[i].obj \in {"router", "app"}
            /\ file.src.calls[i].prop \in {"get", "post"}

\* The CallExpression visitor of parseRoutes over the calls of the file
RECURSIVE traverse(_)
traverse(cs) ==
    IF cs = <<>> THEN <<>>
    ELSE LET node == Head(cs)
             method == toUpperCase(node.prop)
             route == extractRouteInfo(node, method)
         IN  (IF /\ node.obj \in {"router", "app"}
                 /\ isValidHttpMethod(method)
                 /\ route.tag = "route"
              THEN <<route.route>> ELSE <<>>) \o traverse(Tail(cs))

\* RouteParser.parseRoutes(content, filePath), as a function of the source
parseRoutes(src) ==
    IF src.parse = "ok" THEN traverse(src.calls) ELSE catchParseError.routes

ScanResult(rs, totalFiles, totalRoutes, errors) ==
    [routes |-> rs, totalFiles |-> totalFiles, totalRoutes |-> totalRoutes,
     errors |-> errors]

ScanIdle ==
    /\ scpc = "start"
    /\ sfiles = <<>>
    /\ sidx = 0
    /\ sresult = ScanResult(<<>>, 0, 0, <<>>)

\* await scanRoutesDirectory(): totalFiles, the return when no file is found
ScanDirectory ==
    /\ scpc = "start"
    /\ sresult' = [sresult EXCEPT !.totalFiles = Len(sfiles)]
    /\ scpc' = IF Len(sfiles) = 0 THEN "done" ELSE "loop"
    /\ UNCHANGED <<sfiles, sidx>>

\* The body of the for loop on the next file: readFile, isRoutesFile,
\* parseRoutes, push; the catch block records the error
ScanNextFile ==
    /\ scpc = "loop"
    /\ sidx < Len(sfiles)
    /\ LET file == sfiles[sidx + 1] IN
        sresult' =
            IF file.read # "ok"
            THEN [sresult EXCEPT !.errors = Append(@, sidx + 1)]
            ELSE IF ~isRoutesFile(file)
            THEN sresult
            ELSE [sresult EXCEPT !.routes = @ \o parseRoutes(file.src)]
    /\ sidx' = sidx + 1
    /\ UNCHANGED <<scpc, sfiles>>

\* After the loop: totalRoutes = routes.length, return result
ScanReturn ==
    /\ scpc = "loop"
    /\ sidx = Len(sfiles)
    /\ sresult' = [sresult EXCEPT !.totalRoutes = Len(sresult.routes)]
    /\ scpc' = "done"
    /\ UNCHANGED <<sfiles, sidx>>

\* The watcher, the documentation service and the parser service are at rest.
ExtIdle == WatcherIdle /\ ServiceIdle /\ SyncIdle /\ ScanIdle

\* No single function call is under way.
FnIdle ==
    /\ fpc = "none"
    /\ farg = <<>>
    /\ fres = <<>>

baseVars == <<clientVars, parserVars, genVars, fnVars, histVars>>

vars == <<baseVars, extVars>>

ClientInit == ClientIdle /\ ParserIdle /\ GenIdle /\ FnIdle /\ ExtIdle

ClientStep ==
    \/ StartRequest /\ UNCHANGED <<parserVars, genVars, fnVars, histVars, extVars>>
    \/ TransportCall /\ UNCHANGED <<parserVars, genVars, fnVars, histVars, extVars>>
    \/ BackoffSleep /\ UNCHANGED <<parserVars, genVars, fnVars, histVars, extVars>>
    \/ FinishRequest /\ UNCHANGED <<parserVars, genVars, fnVars, histVars, extVars>>
    \/ TestConnection /\ UNCHANGED <<parserVars, genVars, fnVars, histVars, extVars>>
    \/ TestConnectionServices /\ UNCHANGED <<parserVars, genVars, fnVars, histVars, extVars>>

SpecClient == ClientInit /\ [][ClientStep]_vars

ParserInit ==
    /\ ClientIdle
    /\ GenIdle
    /\ ExtIdle
    /\ FnIdle
    /\ ppc = "start"
    /\ pin \in WalkFiles
    /\ pidx = 0
    /\ routes = <<>>
    /\ presult = <<>>
    /\ pthrew = FALSE

ParserStep ==
    \/ ParseSource /\ UNCHANGED <<clientVars, genVars, fnVars, histVars, extVars>>
    \/ VisitCall /\ UNCHANGED <<clientVars, genVars, fnVars, histVars, extVars>>
    \/ ReturnRoutes /\ UNCHANGED <<clientVars, genVars, fnVars, histVars, extVars>>

SpecParser == ParserInit /\ [][ParserStep]_vars

ExtractInit ==
    /\ ClientIdle
    /\ GenIdle
    /\ ExtIdle
    /\ FnIdle
    /\ ppc = "start"
    /\ pin \in SingleCallFiles
    /\ pidx = 0
    /\ routes = <<>>
    /\ presult = <<>>
    /\ pthrew = FALSE

SpecExtract == ExtractInit /\ [][ParserStep]_vars

GenInit == ClientIdle /\ ParserIdle /\ GenIdle /\ FnIdle /\ ExtIdle

GenStep ==
    \/ \E rs \in SeqsUpTo(GenRoutes, MaxRoutes) :
          AddRoutes(rs) /\ UNCHANGED <<clientVars, parserVars, fnVars, histVars, extVars>>
    \/ \E route \in GenRoutes, doc \in AiDocs :
          AddRouteWithAIDoc(route, doc) /\ UNCHANGED <<clientVars, parserVars, fnVars, histVars, extVars>>
    \/ FinalizeDocument /\ UNCHANGED <<clientVars, parserVars, fnVars, histVars, extVars>>

SpecGen == GenInit /\ [][GenStep]_vars

(***************************************************************************)
(* The synthesizer with its setters and the history of the paths given to  *)
(* addRoutes, over a few fragments.                                        *)
(***************************************************************************)
JsonDocs ==
    { AiDoc("unparsable", "throws", <<>>),
      AiDoc("scalar", "value", <<Entry(JunkKey("0"), Val("string", <<>>))>>),
      AiDoc("wellformed", "value", <<UsersGet(<<>>)>>) }

NormalizedPaths(rs) == {convertPathToOpenAPI(rs[i].path) : i \in 1..Len(rs)}

JsonStep ==
    \/ \E rs \in SeqsUpTo(GenRoutes, MaxRoutes) :
          /\ AddRoutes(rs)
          /\ added' = added \cup NormalizedPaths(rs)
          /\ UNCHANGED <<clientVars, parserVars, fnVars, extVars>>
    \/ \E route \in GenRoutes, doc \in JsonDocs :
          AddRouteWithAIDoc(route, doc)
             /\ UNCHANGED <<clientVars, parserVars, fnVars, histVars, extVars>>
    \/ FinalizeDocument /\ UNCHANGED <<clientVars, parserVars, fnVars, histVars, extVars>>
    \/ \E description \in {"", "Production"} :
          SetServer("https://api.example.com", description)
             /\ UNCHANGED <<clientVars, parserVars, fnVars, histVars, extVars>>
    \/ \E description \in {"", "Users service"} :
          SetInfo("Users API", "2.0.0", description)
             /\ UNCHANGED <<clientVars, parserVars, fnVars, histVars, extVars>>

SpecJSON == GenInit /\ [][JsonStep]_vars

(***************************************************************************)
(* extractPathParameters called on its own, for every route path of up to  *)
(* MaxSegments segments.                                                   *)
(***************************************************************************)
PathSegments ==
    {Lit("users"), Param("id", FALSE), Param("id", TRUE), Param("name", FALSE)}

\* Most segments of a route path.
MaxSegments == 3

RoutePaths == SeqsUpTo(PathSegments, MaxSegments)

PathParamsInit ==
    /\ ClientIdle
    /\ ParserIdle
    /\ GenIdle
    /\ ExtIdle
    /\ fpc = "called"
    /\ farg \in RoutePaths
    /\ fres = <<>>

ExtractPathParameters ==
    /\ fpc = "called"
    /\ fres' = <<extractPathParameters(farg)>>
    /\ fpc' = "returned"
    /\ UNCHANGED farg

PathParamsStep ==
    \/ ExtractPathParameters /\ UNCHANGED <<clientVars, parserVars, genVars, histVars, extVars>>

SpecPathParams == PathParamsInit /\ [][PathParamsStep]_vars

(***************************************************************************)
(* buildOperation called on its own, as addRoutes calls it for each route, *)
(* for every method, handler name and path of up to MaxSegments segments.  *)
(***************************************************************************)
OperationRoutes ==
    {GenRoute(method, path, handler) :
        method \in {"GET", "POST"},
        path \in SeqsUpTo(PathSegments \cup {ColonLiteral}, MaxSegments),
        handler \in {"getUsers", "anonymous", "inline function"}}

BuildOperationInit ==
    /\ ClientIdle
    /\ ParserIdle
    /\ GenIdle
    /\ ExtIdle
    /\ fpc = "called"
    /\ farg \in OperationRoutes
    /\ fres = <<>>

BuildOperation ==
    /\ fpc = "called"
    /\ fres' = <<buildOperation(farg)>>
    /\ fpc' = "returned"
    /\ UNCHANGED farg

BuildOperationStep ==
    \/ BuildOperation /\ UNCHANGED <<clientVars, parserVars, genVars, histVars, extVars>>

SpecBuildOperation == BuildOperationInit /\ [][BuildOperationStep]_vars

(***************************************************************************)
(* The validator (ValidationService.validateDocument).                     *)
(* A document is null, a value that is no object (kind "scalar", every     *)
(* member read from it is undefined), or an object given by what the       *)
(* checks read of it:                                                      *)
(*   openapi:  "none", "3.1.0", "2.0", "number" (a number, as YAML loads   *)
(*             an unquoted 3.1)                                            *)
(*   info:     "none", or which of title and version it has                *)
(*   paths:    "none", or the sequence of its path items                   *)
(*   tags, schemas: "none", "empty", "some"                                *)
(* The delegated schema check is an oracle: it reports no error, one or    *)
(* two errors, or throws.                                                  *)
(***************************************************************************)
ValidationResult(isValid, errors, warnings, threw) ==
    [isValid |-> isValid, errors |-> errors, warnings |-> warnings, threw |-> threw]

\* result.errors.push(...) without result.isValid = false
AddErrorOnly(r, message) ==
    [r EXCEPT !.errors = Append(@, message)]

\* result.errors.push({message, path}); result.isValid = false
AddError(r, message) ==
    [r EXCEPT !.errors = Append(@, message), !.isValid = FALSE]

AddWarning(r, message) ==
    [r EXCEPT !.warnings = Append(@, message)]

\* a TypeError leaves the checks; what was recorded so far stays in result
Throws(r) == [r EXCEPT !.threw = TRUE]

VParam(kind, name, in, schema) ==
    [kind |-> kind, name |-> name, in |-> in, schema |-> schema]

\* null, complete, without name, without in, without schema and content
ParamShapes ==
    { VParam("null", FALSE, FALSE, FALSE),
      VParam("param", TRUE, TRUE, TRUE),
      VParam("param", FALSE, TRUE, TRUE),
      VParam("param", TRUE, FALSE, TRUE),
      VParam("param", TRUE, TRUE, FALSE) }

\* Most parameters of an operation given to the validator.
MaxParams == 1

\* summary: the operation has a summary or a description
\* responses: "none", "empty" ({}), "2xx", "4xx"
\* parameters: none, not an array (an object), or the list of parameters
VParameters(kind, list) == [kind |-> kind, list |-> list]

NoParameters == VParameters("none", <<>>)

VOperation(kind, summary, responses, parameters) ==
    [kind |-> kind, summary |-> summary, responses |-> responses,
     parameters |-> parameters]

NullOperation == VOperation("null", FALSE, "none", NoParameters)

OperationShapes ==
    {NullOperation}
    \cup {VOperation("op", sm, rs, NoParameters) :
             sm \in BOOLEAN, rs \in {"none", "empty", "2xx", "4xx"}}
    \cup {VOperation("op", TRUE, "2xx", VParameters("notArray", <<>>))}
    \cup {VOperation("op", TRUE, "2xx", VParameters("list", ps)) :
             ps \in SeqsUpTo(ParamShapes, MaxParams)}

\* slash: the path starts with /;  ops: the values under get, post, ...
VPathItem(kind, slash, ops) == [kind |-> kind, slash |-> slash, ops |-> ops]

PathItemShapes ==
    {VPathItem("null", TRUE, <<>>), VPathItem("item", FALSE, <<>>)}
    \cup {VPathItem("item", TRUE, <<operation>>) : operation \in OperationShapes}

\* Most path items of a document given to the validator.
MaxPathItems == 1

\* document.paths: none, or the object given by its path items
VPaths(kind, items) == [kind |-> kind, items |-> items]

NoPaths == VPaths("none", <<>>)

VInfo(kind, title, version) == [kind |-> kind, title |-> title, version |-> version]

NoInfo == VInfo("none", FALSE, FALSE)

FullInfo == VInfo("info", TRUE, TRUE)

InfoShapes ==
    {NoInfo} \cup {VInfo("info", ti, ve) : ti, ve \in BOOLEAN}

VDocument(kind, version, docinfo, docpaths, doctags, docschemas) ==
    [kind |-> kind, openapi |-> version, info |-> docinfo, paths |-> docpaths,
     tags |-> doctags, schemas |-> docschemas]

NullDocument == VDocument("null", "none", NoInfo, NoPaths, "none", "none")

ScalarDocument == VDocument("scalar", "none", NoInfo, NoPaths, "none", "none")

\* documents without path items, every shape of the other members
TopLevelDocuments ==
    {VDocument("object", ve, inf, pa, tg, sc) :
        ve \in {"none", "3.1.0", "2.0", "number"}, inf \in InfoShapes,
        pa \in {NoPaths, VPaths("object", <<>>)}, tg \in {"none", "empty", "some"},
        sc \in {"none", "empty", "some"}}

\* documents with path items
PathDocuments ==
    {VDocument("object", "3.1.0", inf, VPaths("object", items), "some", "some") :
        inf \in {NoInfo, FullInfo},
        items \in SeqsUpTo(PathItemShapes, MaxPathItems)}

Documents == {NullDocument, ScalarDocument} \cup TopLevelDocuments \cup PathDocuments

\* this.validator.validate(document): "ok", "one", "two" errors, or "throws"
SchemaOutcomes == {"ok", "one", "two", "throws"}

\* the callback of operation.parameters.forEach
validateParameter(param, r) ==
    IF param.kind = "null" THEN Throws(r)
    ELSE LET r1 == IF ~param.name THEN AddError(r, "Parameter missing name") ELSE r
             r2 == IF ~param.in THEN AddError(r1, "Parameter missing 'in' field") ELSE r1
         IN  IF ~param.schema
             THEN AddError(r2, "Parameter must have schema or content")
             ELSE r2

RECURSIVE validateParameters(_, _)
validateParameters(params, r) ==
    IF params = <<>> \/ r.threw THEN r
    ELSE validateParameters(Tail(params), validateParameter(Head(params), r))

validateOperation(operation, r) ==
    LET r1 == IF ~operation.summary
              THEN AddWarning(r, "Operation should have summary or description")
              ELSE r
        r2 == IF operation.responses \in {"none", "empty"}
              THEN AddError(r1, "Operation must have at least one response")
              ELSE r1
        r3 == IF operation.responses \in {"empty", "4xx"}
              THEN AddWarning(r2, "Operation should have at least one success response (2xx)")
              ELSE r2
    IN  CASE operation.parameters.kind = "none" -> r3
          [] operation.parameters.kind = "notArray" -> Throws(r3)
          [] OTHER -> validateParameters(operation.parameters.list, r3)

\* methods.forEach over one path item: a null operation is skipped
RECURSIVE validateOperations(_, _)
validateOperations(ops, r) ==
    IF ops = <<>> \/ r.threw THEN r
    ELSE validateOperations(Tail(ops),
             IF Head(ops).kind = "null" THEN r ELSE validateOperation(Head(ops), r))

\* Object.entries(paths).forEach: pathItem[method] of a null path item throws
RECURSIVE validatePaths(_, _)
validatePaths(items, r) ==
    IF items = <<>> \/ r.threw THEN r
    ELSE LET pathItem == Head(items)
             r1 == IF ~pathItem.slash THEN AddWarning(r, "Path should start with /") ELSE r
             r2 == IF pathItem.kind = "null" THEN Throws(r1)
                   ELSE validateOperations(pathItem.ops, r1)
         IN  validatePaths(Tail(items), r2)

performCustomValidations(document, r) ==
    IF document.kind = "null" \/ document.openapi = "number" THEN Throws(r)
    ELSE LET r1 == IF document.openapi # "3.1.0"
                   THEN AddWarning(r, "OpenAPI version should be 3.x") ELSE r
             r2 == IF document.info.kind = "none"
                   THEN AddError(r1, "Missing required field: info") ELSE r1
             r3 == IF document.paths.kind = "none" \/ document.paths.items = <<>>
                   THEN AddWarning(r2, "No paths defined in the document") ELSE r2
             r4 == IF document.info.kind # "none" /\ ~document.info.title
                   THEN AddError(r3, "Missing required field: info.title") ELSE r3
             r5 == IF document.info.kind # "none" /\ ~document.info.version
                   THEN AddError(r4, "Missing required field: info.version") ELSE r4
             r6 == IF document.paths.kind # "none"
                   THEN validatePaths(document.paths.items, r5) ELSE r5
             r7 == IF document.tags = "empty"
                   THEN AddWarning(r6, "Tags array is empty") ELSE r6
         IN  IF r6.threw THEN r6
             ELSE IF document.schemas = "empty"
             THEN AddWarning(r7, "No reusable schemas defined in components")
             ELSE r7

\* the catch block of validateDocument
catchValidation(r) ==
    [r EXCEPT !.isValid = FALSE,
              !.errors = Append(@, "Validation exception"),
              !.threw = FALSE]

validateDocument(document, outcome) ==
    LET fresh == ValidationResult(TRUE, <<>>, <<>>, FALSE)
        checked == CASE outcome = "one" ->
                          [fresh EXCEPT !.isValid = FALSE, !.errors = <<"schema">>]
                     [] outcome = "two" ->
                          [fresh EXCEPT !.isValid = FALSE,
                                         !.errors = <<"schema", "schema">>]
                     [] OTHER -> fresh
        custom == performCustomValidations(document, checked)
    IN  IF outcome = "throws" THEN catchValidation(fresh)
        ELSE IF custom.threw THEN catchValidation(custom)
        ELSE custom

ValidationCall(document, outcome) == [document |-> document, outcome |-> outcome]

ValidateInit ==
    /\ ClientIdle
    /\ ParserIdle
    /\ GenIdle
    /\ ExtIdle
    /\ fpc = "called"
    /\ farg \in {ValidationCall(d, o) : d \in Documents, o \in SchemaOutcomes}
    /\ fres = <<>>

ValidateDocument ==
    /\ fpc = "called"
    /\ fres' = <<validateDocument(farg.document, farg.outcome)>>
    /\ fpc' = "returned"
    /\ UNCHANGED farg

ValidateStep ==
    \/ ValidateDocument /\ UNCHANGED <<clientVars, parserVars, genVars, histVars, extVars>>

SpecValidate == ValidateInit /\ [][ValidateStep]_vars

(***************************************************************************)
(* extractYAML called on a response text, then on its own result.          *)
(***************************************************************************)
ExtractYAMLInit ==
    /\ ClientIdle
    /\ ParserIdle
    /\ GenIdle
    /\ ExtIdle
    /\ fpc = "called"
    /\ farg \in Contents
    /\ fres = <<>>

ExtractYAML ==
    /\ Len(fres) < 2
    /\ fres' = Append(fres, extractYAML(IF fres = <<>> THEN farg ELSE fres[Len(fres)]))
    /\ fpc' = "returned"
    /\ UNCHANGED farg

ExtractYAMLStep ==
    \/ ExtractYAML /\ UNCHANGED <<clientVars, parserVars, genVars, histVars, extVars>>

SpecExtractYAML == ExtractYAMLInit /\ [][ExtractYAMLStep]_vars

(***************************************************************************)
(* The file watcher service under its calls, the file events of its live   *)
(* watchers and the passing of time.                                       *)
(***************************************************************************)
WatcherInit == ClientIdle /\ ParserIdle /\ GenIdle /\ FnIdle /\ ExtIdle

WatcherStep ==
    \/ Start /\ UNCHANGED <<baseVars, svcVars, syncVars, scanVars>>
    \/ Stop /\ UNCHANGED <<baseVars, svcVars, syncVars, scanVars>>
    \/ \E enabled \in BOOLEAN :
          SetEnabled(enabled) /\ UNCHANGED <<baseVars, svcVars, syncVars, scanVars>>
    \/ \E delay \in Delays :
          SetDebounceDelay(delay) /\ UNCHANGED <<baseVars, svcVars, syncVars, scanVars>>
    \/ \E kind \in EventKinds, filePath \in WatchedFiles :
          FileEvent(kind, filePath) /\ UNCHANGED <<baseVars, svcVars, syncVars, scanVars>>
    \/ TimerFires /\ UNCHANGED <<baseVars, svcVars, syncVars, scanVars>>
    \/ Tick /\ UNCHANGED <<baseVars, svcVars, syncVars, scanVars>>

SpecWatcher == WatcherInit /\ [][WatcherStep]_vars

(***************************************************************************)
(* One run of generateDocumentation for every scan result of up to         *)
(* MaxRoutes routes, with the user free to cancel during the loop.         *)
(***************************************************************************)
ServiceInit ==
    /\ ClientIdle /\ ParserIdle /\ GenIdle /\ FnIdle
    /\ WatcherIdle /\ SyncIdle /\ ScanIdle
    /\ spc = "start"
    /\ scanResult \in ServiceScans
    /\ si = 0
    /\ cancelRequested = FALSE
    /\ examined = <<>>
    /\ aiCalls = <<>>
    /\ written = <<>>
    /\ serr = "none"

ServiceStep ==
    \/ ScanRoutes /\ UNCHANGED <<clientVars, parserVars, fnVars, histVars, watchVars, syncVars, scanVars>>
    \/ Cancel /\ UNCHANGED <<clientVars, parserVars, fnVars, histVars, watchVars, syncVars, scanVars>>
    \/ CheckCancellation /\ UNCHANGED <<clientVars, parserVars, fnVars, histVars, watchVars, syncVars, scanVars>>
    \/ AiRejects /\ UNCHANGED <<clientVars, parserVars, fnVars, histVars, watchVars, syncVars, scanVars>>
    \/ AiResolves /\ UNCHANGED <<clientVars, parserVars, fnVars, histVars, watchVars, syncVars, scanVars>>
    \/ SleepOver /\ UNCHANGED <<clientVars, parserVars, fnVars, histVars, watchVars, syncVars, scanVars>>
    \/ FinalizeRun /\ UNCHANGED <<clientVars, parserVars, fnVars, histVars, watchVars, syncVars, scanVars>>
    \/ WriteFile /\ UNCHANGED <<clientVars, parserVars, fnVars, histVars, watchVars, syncVars, scanVars>>

SpecService == ServiceInit /\ [][ServiceStep]_vars

(***************************************************************************)
(* Two runs of generateForChangedFile, interleaved at their awaits.        *)
(***************************************************************************)
SyncInit == ClientIdle /\ ParserIdle /\ GenIdle /\ FnIdle /\ ExtIdle

SyncStep ==
    \/ \E r \in Runs, file \in SyncFiles, readable \in BOOLEAN :
          BeginSync(r, file, readable) /\ UNCHANGED <<baseVars, watchVars, svcVars, scanVars>>
    \/ \E r \in Runs :
          ReadExisting(r) /\ UNCHANGED <<baseVars, watchVars, svcVars, scanVars>>
    \/ \E r \in Runs, outcome \in SyncOutcomes :
          SyncRouteDone(r, outcome) /\ UNCHANGED <<baseVars, watchVars, svcVars, scanVars>>
    \/ \E r \in Runs :
          WriteYaml(r) /\ UNCHANGED <<baseVars, watchVars, svcVars, scanVars>>
    \/ \E r \in Runs :
          WriteJson(r) /\ UNCHANGED <<baseVars, watchVars, svcVars, scanVars>>

SpecSync == SyncInit /\ [][SyncStep]_vars

(***************************************************************************)
(* scanAndParseRoutes over every list of up to MaxFiles scanResult files.     *)
(***************************************************************************)
ScanInit ==
    /\ ClientIdle /\ ParserIdle /\ GenIdle /\ FnIdle
    /\ WatcherIdle /\ ServiceIdle /\ SyncIdle
    /\ scpc = "start"
    /\ sfiles \in SeqsUpTo(ScanFiles, MaxFiles)
    /\ sidx = 0
    /\ sresult = ScanResult(<<>>, 0, 0, <<>>)

ScanStep ==
    \/ ScanDirectory /\ UNCHANGED <<baseVars, watchVars, svcVars, syncVars>>
    \/ ScanNextFile /\ UNCHANGED <<baseVars, watchVars, svcVars, syncVars>>
    \/ ScanReturn /\ UNCHANGED <<baseVars, watchVars, svcVars, syncVars>>

SpecScan == ScanInit /\ [][ScanStep]_vars

(***************************************************************************)
(* Claims about the completion client.                                     *)
(***************************************************************************)
\* A retryable failure in the words of the specification: HTTP 429 or >= 500
IsRetryableStatus(o) == o.kind = "status" /\ (o.status = 429 \/ o.status >= 500)

IsFailure(o) == o.kind # "ok"

\* The message class the error taxonomy assigns to a failure.
ExpectedMessage(o) ==
    CASE o.kind = "status" /\ o.status = 400 -> "Bad Request"
      [] o.kind = "status" /\ o.status = 401 -> "Invalid API key"
      [] o.kind = "status" /\ o.status = 429 -> "Rate limit exceeded"
      [] o.kind = "status" /\ o.status \in {500, 502, 503, 504} -> "OpenRouter server error"
      [] o.kind = "status" /\ o.status \notin {400, 401, 429, 500, 502, 503, 504} -> "API error"
      [] o.kind = "network" -> "Network error"
      [] OTHER -> "Unexpected error"

\* C3: when the first k transport calls (k in 0..3) fail with a retryable
\* status and call k+1 succeeds with non-empty content, the request returns
\* that content with its fences stripped, after exactly k+1 transport calls.
C3_RetryThenSuccess ==
    \A k \in 0..3 :
        ( /\ cpc = "done"
          /\ Len(script) = k + 1
          /\ \A i \in 1..k : IsRetryableStatus(script[i])
          /\ script[k + 1].kind = "ok"
          /\ script[k + 1].body = "content" )
        => /\ result = Returned(extractYAML(script[k + 1].text))
           /\ Len(calls) = k + 1

\* Three 429 responses, then a fenced text: returned stripped after 4 calls.
C3_Witness ==
    /\ cpc = "done"
    /\ Len(calls) = 4
    /\ \A i \in 1..3 : calls[i].kind = "status" /\ calls[i].status = 429
    /\ calls[4].kind = "ok"
    /\ calls[4].text = <<"F", "x", "F">>
    /\ result = Returned(<<"x">>)

\* C4: a request makes at most 4 transport calls (1 attempt and at most 3
\* retries) and then completes, by returning or by raising, whatever the
\* transport answers.
\* Every step of a running request either completes it or lowers Remaining,
\* a natural number: the request completes within 8 steps.
Remaining == 2 * (4 - Len(calls)) + (IF cpc = "sleep" THEN 1 ELSE 0)

C4_BoundedAttempts ==
    [][ /\ Len(calls') <= 4
        /\ cpc \in {"send", "sleep"} =>
              \/ cpc' = "done" /\ result'.status \in {"returned", "raised"}
              \/ cpc' \in {"send", "sleep"} /\ Remaining' < Remaining /\ Remaining' >= 0
      ]_vars

\* A request that used all 4 attempts and raised.
C4_Witness ==
    /\ cpc = "done"
    /\ Len(calls) = 4
    /\ Len(sleeps) = 3
    /\ result.status = "raised"

\* C5: a non-retryable transport failure (a status that is neither 429 nor
\* >= 500, or no response) ends the request on the first attempt: one
\* transport call, no backoff sleep, and the mapped error is raised.
C5_NonRetryableFailsAtOnce ==
    ( /\ cpc = "done"
      /\ script[1].kind \in {"status", "network"}
      /\ ~IsRetryableStatus(script[1]) )
    => /\ Len(calls) = 1
       /\ sleeps = <<>>
       /\ result.status = "raised"
       /\ result.error.exc = "Error"
       /\ result.error.msg = ExpectedMessage(script[1])

\* C6: when all 4 attempts fail with retryable statuses, the request raises
\* the error that a single failed attempt with the last status would raise.
C6_ExhaustedSameError ==
    ( /\ cpc = "done"
      /\ Len(calls) = 4
      /\ \A i \in 1..4 : IsRetryableStatus(calls[i]) )
    => result = Threw(handleError(Answer(4)))

\* Persistent 429: the rate-limit error after 4 calls.
C6_Witness ==
    /\ cpc = "done"
    /\ Len(calls) = 4
    /\ \A i \in 1..4 : calls[i].kind = "status" /\ calls[i].status = 429
    /\ result.status = "raised"
    /\ result.error.msg = "Rate limit exceeded"

\* What made a finished request raise: the failure of its last transport
\* call, or the exception of reading a response that carries no content.
Cause ==
    LET o == Answer(Len(calls)) IN
    IF o.kind = "ok" THEN Outcome("other", 0, "null", o.body, NoText) ELSE o

\* C7: every failure of a request is raised as an Error whose message is
\* fixed by the class of the failure (status 400, 401, 429, 500/502/503/504,
\* other status, no response, non-transport exception), for every status and
\* with or without a body; no other exception escapes.
C7_ErrorTaxonomy ==
    (cpc = "done" /\ result.status = "raised")
    => /\ result.error.exc = "Error"
       /\ result.error.msg = ExpectedMessage(Cause)

\* C8: testConnection never raises: it returns false for every failure of
\* its transport call and for every response without content, and true only
\* for a response that carries non-empty message content.
C8_TestConnectionNeverRaises ==
    cpc = "tested"
    => /\ tc \in {"true", "false"}
       /\ (tc = "true" <=> (calls[1].kind = "ok" /\ calls[1].body = "content"))

(***************************************************************************)
(* Claims about the route extractor.                                       *)
(***************************************************************************)
\* A candidate route registration: router.METHOD(...) or app.METHOD(...)
IsCandidate(c) == c.obj \in {"router", "app"} /\ c.prop \in {"get", "post"}

\* The extraction of the call fails (the visit of the handler body throws).
ExtractionFails(c) == c.handler.kind = "inline" /\ c.handler.deep

\* The calls of the file that are routes and whose extraction succeeds.
ExpectedRoutes(cs) ==
    SelectSeq(cs, LAMBDA c : IsCandidate(c) /\ c.arg = "string" /\ ~ExtractionFails(c))

HandlerNameOf(c) ==
    CASE c.handler.kind = "ident" -> c.handler.name
      [] c.handler.kind = "inline" -> "inline function"
      [] OTHER -> "anonymous"

\* C9: parseRoutes never throws; a parse failure of the whole file yields
\* the empty list; a failure while extracting one candidate route drops only
\* that route, every other route of the file is returned, in source order.
C9_ParseNeverThrows ==
    /\ pthrew = FALSE
    /\ (ppc = "done" /\ pin.parse = "fail") => presult = <<>>
    /\ (ppc = "done" /\ pin.parse = "ok") =>
          LET expected == ExpectedRoutes(pin.calls) IN
          /\ Len(presult) = Len(expected)
          /\ \A i \in 1..Len(expected) :
                /\ presult[i].method = (IF expected[i].prop = "get" THEN "GET" ELSE "POST")
                /\ presult[i].path = expected[i].path
                /\ presult[i].handler = HandlerNameOf(expected[i])

\* A file of two routes: the extraction of one fails, the other is returned.
C9_Witness ==
    /\ ppc = "done"
    /\ pin.parse = "ok"
    /\ Len(pin.calls) = 2
    /\ \A i \in 1..2 : IsCandidate(pin.calls[i]) /\ pin.calls[i].arg = "string"
    /\ ExtractionFails(pin.calls[1])
    /\ ~ExtractionFails(pin.calls[2])
    /\ Len(presult) = 1
    /\ presult[1].handler = HandlerNameOf(pin.calls[2])

\* The candidate calls of the file whose first argument is a string literal.
StringCandidates(cs) ==
    SelectSeq(cs, LAMBDA c : IsCandidate(c) /\ c.arg = "string")

\* The record of a call: method, path, handler name and path parameters.
IsRecordOf(record, c) ==
    /\ record.method = (IF c.prop = "get" THEN "GET" ELSE "POST")
    /\ record.path = c.path
    /\ record.handler = HandlerNameOf(c)
    /\ record.parameters = extractPathParameters(c.path)
    /\ Len(record.responses) > 0

CodeOf(rc) ==
    CASE rc.shape = "status" -> rc.code
      [] rc.shape = "bare" /\ rc.m \in {"json", "send"} -> 200
      [] OTHER -> -1

ContentTypeOf(rc) == IF rc.m = "send" THEN "text/plain" ELSE "application/json"

FirstWith(rcs, code) ==
    CHOOSE j \in 1..Len(rcs) :
        /\ CodeOf(rcs[j]) = code
        /\ \A k \in 1..(j - 1) : CodeOf(rcs[k]) # code

\* The call a returned record was extracted from.
SourceOf(i) == ExpectedRoutes(pin.calls)[i]

\* C10: every returned record has a non-empty responses list with pairwise
\* distinct status codes, the first occurrence of a code winning; when the
\* handler is not an inline function or has no recognised response call, the
\* list is exactly one entry, 200 "Success".
C10_ResponsesDistinct ==
    ppc = "done" =>
    \A i \in 1..Len(presult) :
        LET rs == presult[i].responses
            h == SourceOf(i).handler
        IN  /\ Len(rs) >= 1
            /\ \A a, b \in 1..Len(rs) : rs[a].statusCode = rs[b].statusCode => a = b
            /\ ( h.kind = "inline" /\ (\E j \in 1..Len(h.resp) : CodeOf(h.resp[j]) # -1) ) =>
                  /\ \A j \in 1..Len(h.resp) :
                        CodeOf(h.resp[j]) # -1 => HasStatus(rs, CodeOf(h.resp[j]))
                  /\ \A a \in 1..Len(rs) :
                        /\ \E j \in 1..Len(h.resp) : CodeOf(h.resp[j]) = rs[a].statusCode
                        /\ rs[a].contentType =
                              ContentTypeOf(h.resp[FirstWith(h.resp, rs[a].statusCode)])
            /\ ( h.kind # "inline" \/ (\A j \in 1..Len(h.resp) : CodeOf(h.resp[j]) = -1) ) =>
                  /\ Len(rs) = 1
                  /\ rs[1].statusCode = 200
                  /\ rs[1].description = "Success"

\* A handler that answers 404 twice, first with json, then with send: one
\* response, of the first call.
C10_Witness ==
    /\ ppc = "done"
    /\ Len(presult) = 1
    /\ pin.calls[1].handler.resp =
          <<ResponseCall("status", 404, "json"), ResponseCall("status", 404, "send")>>
    /\ presult[1].responses = <<RouteResponse(404, "Not Found", "application/json")>>


(***************************************************************************)
(* Claims about the documentation synthesizer.                             *)
(***************************************************************************)
\* paths[p][m] exists and is an operation object
HasOperation(ps, p, m) ==
    /\ p \in DOMAIN ps
    /\ m \in DOMAIN ps[p]
    /\ ps[p][m].kind = "op"

\* C1: after addRouteWithAIDoc(record, rawYaml) returns, whatever rawYaml
\* is (unparsable, empty, a scalar, a list, a mapping of several keys, a
\* mapping whose value is no method-to-operation mapping, or a well-formed
\* single-path fragment), the document holds an operation for the record's
\* method under the record's normalized path, and when rawYaml is not of the
\* expected shape that operation is the one the manual fallback builds.
C1_RouteAlwaysRepresented ==
    [][\A route \in GenRoutes, doc \in AiDocs :
          AddRouteWithAIDoc(route, doc) =>
             LET p == convertPathToOpenAPI(route.path)
                 m == toLowerCase(route.method)
             IN  /\ HasOperation(paths', p, m)
                 /\ doc.shape # "wellformed" => paths'[p][m] = buildOperation(route)]_vars

\* C2: path items are merged, never dropped: an operation paths[p][m] that
\* exists before a call of addRoutes or addRouteWithAIDoc still exists after
\* it (possibly replaced by a newer operation for the same p and m), so the
\* operations of the other methods of a touched path are preserved.
C2_PathItemsMerged ==
    [][glast'.op \in {"addRoutes", "addRouteWithAIDoc"} =>
          \A p \in DOMAIN paths : \A m \in DOMAIN paths[p] :
             HasOperation(paths, p, m) => HasOperation(paths', p, m)]_vars


C14_FinalizeBackfillsTags ==
    [][(gfinal' = gfinal + 1 /\ ~glast'.threw) =>
          /\ Len(tags') > 0
          /\ tags = <<>> => tags' = <<Tag("Default", "API endpoints")>>
          /\ tags # <<>> => tags' = tags]_vars

\* finalizeDocument returned on a document whose only operation came from a
\* fragment without tags: the Default entry was inserted.
C14_Witness ==
    /\ glast = LastCall("finalizeDocument", FALSE)
    /\ gfinal = 1
    /\ DOMAIN paths = {OpenApiUsers}
    /\ DOMAIN paths[OpenApiUsers] = {"get"}
    /\ paths[OpenApiUsers]["get"] = AiOp(<<>>)
    /\ tags = <<Tag("Default", "API endpoints")>>

\* C15: finalizeDocument is idempotent: from any reachable document state,
\* a second call in a row leaves paths, tags and components.schemas exactly
\* as the first call left them.
C15_FinalizeIdempotent ==
    [][(gfinal >= 1 /\ gfinal' = gfinal + 1) =>
          /\ paths' = paths
          /\ tags' = tags
          /\ schemas' = schemas]_vars

\* finalizeDocument was called twice in a row on a document with a manually
\* built operation and no tag: one Default tag, the ErrorResponse schema.
C15_Witness ==
    /\ gfinal = 2
    /\ glast = LastCall("finalizeDocument", FALSE)
    /\ \E operation \in PathItemValues(paths) : operation.src = "manual"
    /\ tags = <<Tag("Default", "API endpoints")>>
    /\ schemas = {"ErrorResponse"}

\* C16: after any sequence of synthesizer operations (addRoutes,
\* addRouteWithAIDoc, finalizeDocument, setServer, setInfo) the parsed toJSON
\* output has openapi equal to "3.1.0" and has a paths key for the
\* normalized form of every route path that was passed to addRoutes.
C16_JsonKeepsAddedPaths ==
    /\ toJSON.openapi = "3.1.0"
    /\ \A p \in added : p \in DOMAIN toJSON.paths

\* /users and /:id? were given to addRoutes, then the info and the server
\* were replaced: the output has /users and /{id}?.
C16_Witness ==
    /\ added = {OpenApiUsers, <<Brace("id", TRUE)>>}
    /\ glast.op \in {"setServer", "setInfo"}
    /\ info.title = "Users API"
    /\ servers[1].url = "https://api.example.com"
    /\ {OpenApiUsers, <<Brace("id", TRUE)>>} \subseteq DOMAIN toJSON.paths

(***************************************************************************)
(* Claims about extractPathParameters.                                     *)
(***************************************************************************)
\* The parameter names of a path, each once, in order of first occurrence,
\* with the optionality of that first occurrence.
RECURSIVE FirstOccurrences(_, _)
FirstOccurrences(routePath, seen) ==
    IF routePath = <<>> THEN <<>>
    ELSE LET seg == Head(routePath)
         IN  IF seg.kind = "param" /\ seg.name \notin seen
             THEN <<RouteParameter(seg.name, "path", ~seg.opt)>>
                  \o FirstOccurrences(Tail(routePath), seen \cup {seg.name})
             ELSE FirstOccurrences(Tail(routePath), seen)

\* C11: for every route path, extractPathParameters yields exactly one path
\* parameter record per distinct name occurring as :name or :name? (a name
\* occurring more than once yields a single entry, the first occurrence
\* winning), in left-to-right order, with required = false iff the token
\* ends in ?.
C11_OnePerDistinctName ==
    fpc = "returned" => fres[1] = FirstOccurrences(farg, {})


(***************************************************************************)
(* Claims about buildOperation.                                            *)
(***************************************************************************)
\* <method><Resource>, with ById appended iff the path has a parameter
GeneratedId(route) ==
    <<toLowerCase(route.method),
      IF route.path = <<>> THEN "Resource" ELSE Capitalize(SegText(route.path[1]))>>
    \o (IF extractPathParameters(route.path) # <<>> THEN <<"ById">> ELSE <<>>)

\* C17: for every operation built by addRoutes, operationId equals the
\* handler name of the record when that name is neither "anonymous" nor
\* "inline function"; otherwise it is the generated id <method><Resource>,
\* with the suffix ById appended iff the route path contains a parameter.
C17_OperationId ==
    fpc = "returned" =>
        fres[1].operationId =
            IF farg.handler \notin {"anonymous", "inline function"}
            THEN <<farg.handler>>
            ELSE GeneratedId(farg)


(***************************************************************************)
(* Claims about extractYAML.                                               *)
(***************************************************************************)
\* C18: extractYAML is idempotent: for every response text x (also one that
\* starts with more than one fence marker, ends with more than one fence, or
\* has fences inside the body), extractYAML(extractYAML(x)) = extractYAML(x).
C18_ExtractYAMLIdempotent ==
    Len(fres) = 2 => fres[2] = fres[1]


(***************************************************************************)
(* Claims about validateDocument.                                          *)
(***************************************************************************)
\* C19: for every document, the result of validateDocument has isValid =
\* false exactly when its errors list is non-empty: recording any error
\* (from the delegated schema check or from a custom check) makes isValid
\* false, and warnings, however many, never do.
C19_InvalidIffErrors ==
    fpc = "returned" => (fres[1].isValid = FALSE <=> fres[1].errors # <<>>)

\* The schema check passed, a custom check recorded the missing info and
\* another a warning: the result is invalid.
C19_Witness ==
    /\ fpc = "returned"
    /\ farg.outcome = "ok"
    /\ fres[1].errors = <<"Missing required field: info">>
    /\ fres[1].warnings # <<>>
    /\ fres[1].isValid = FALSE

\* C20: validateDocument never throws for any input (null, a non-object, a
\* document whose path items or operations are null): an exception raised
\* at any point during validation is converted into a result with isValid =
\* false whose errors list is the single entry describing that exception.
C20_ExceptionIsSingleError ==
    fpc = "returned" =>
        /\ ~fres[1].threw
        /\ (\E i \in 1..Len(fres[1].errors) : fres[1].errors[i] = "Validation exception") =>
              /\ fres[1].isValid = FALSE
              /\ fres[1].errors = <<"Validation exception">>

(***************************************************************************)
(* Claims about the documentation service.                                 *)
(***************************************************************************)
\* C21: in generateDocumentation the cancellation flag is read before each
\* route's AI call; once it is read set, the run raises the cancelled error,
\* no AI call is issued for that route or a later one, and none of the
\* output files is written.
C21_CancellationStopsRun ==
    /\ \A k \in 1..Len(aiCalls) :
          /\ aiCalls[k] = k
          /\ k <= Len(examined)
          /\ examined[k] = Examined(k, FALSE)
    /\ \A k \in 1..Len(examined) :
          examined[k].set =>
             /\ k = Len(examined)
             /\ spc = "failed"
             /\ serr = "Documentation generation cancelled by user"
             /\ Len(aiCalls) = k - 1
             /\ written = <<>>

\* The user cancelled during the first route: the flag was read set at the
\* head of the second iteration.
C21_Witness ==
    /\ Len(examined) = 2
    /\ examined[2].set
    /\ aiCalls = <<1>>
    /\ spc = "failed"

\* C26: in generateDocumentation, when the AI call for a route fails, the
\* run goes on with the other routes and the route is still added by the
\* manual fallback, so the document that is finalized and written holds an
\* operation for every scanned route.
C26_FailedRouteFallsBack ==
    spc = "done" =>
        \A i \in 1..Len(scanResult) :
            HasOperation(paths, convertPathToOpenAPI(scanResult[i].path),
                         toLowerCase(scanResult[i].method))

\* The routes of the files that can be read and parsed, in file order.
RECURSIVE RoutesOfReadable(_)
RoutesOfReadable(files) ==
    IF files = <<>> THEN <<>>
    ELSE (IF Head(files).read = "ok" THEN parseRoutes(Head(files).src) ELSE <<>>)
         \o RoutesOfReadable(Tail(files))

\* C22: scanAndParseRoutes handles the files one at a time in list order; a
\* read or parse failure on a file never keeps the later files from being
\* processed: the result holds, in file order, the routes of every file that
\* could be read and parsed, and totalRoutes is the number of routes returned.
C22_FailuresIsolated ==
    scpc = "done" =>
        /\ sresult.routes = RoutesOfReadable(sfiles)
        /\ sresult.totalRoutes = Len(sresult.routes)

\* The document a run persists, had it started from the stored document doc.
RECURSIVE mergeAll(_, _, _, _)
mergeAll(doc, file, rs, outcomes) ==
    IF rs = <<>> THEN doc
    ELSE mergeAll(mergeFragment(doc, file, Head(rs), Head(outcomes)),
                  file, Tail(rs), Tail(outcomes))

PersistedFrom(doc, r) ==
    IF runs[r].routes = <<>> THEN QuickDoc(runs[r].file)
    ELSE mergeAll(removeOldPaths(doc, runs[r].routes), runs[r].file,
                  runs[r].routes, runs[r].outcomes)

\* The two runs persisted what they would have, run r first and then q.
SerialOrder(r, q) ==
    /\ runs[r].doc = PersistedFrom(ExistingDoc, r)
    /\ runs[q].doc = PersistedFrom(PersistedFrom(ExistingDoc, r), q)

\* C27: two synthesis runs that overlap in time share no mutable state: the
\* document each run persists is the one it would persist if the two runs
\* had executed one after the other in some order.
C27_RunsSerializable ==
    (\A r \in Runs : runs[r].pc = "done") => (SerialOrder(1, 2) \/ SerialOrder(2, 1))

\* C29: after generateForChangedFile completes against an existing document
\* for a file that still defines routes, every route of the changed file
\* whose AI call succeeded is in the written document under its OpenAPI path
\* template, and the operations of the routes of other files are unchanged.
C29_ChangedRoutesMerged ==
    \A r \in Runs :
        (runs[r].pc = "done" /\ runs[r].routes # <<>>) =>
            /\ \A i \in 1..Len(runs[r].routes) :
                  runs[r].outcomes[i] # "rejects" =>
                     /\ convertPathToOpenAPI(runs[r].routes[i].path) \in DOMAIN runs[r].doc
                     /\ toLowerCase(runs[r].routes[i].method)
                           \in DOMAIN runs[r].doc[convertPathToOpenAPI(runs[r].routes[i].path)]
            /\ \A p \in DOMAIN runs[r].read :
                  \A m \in DOMAIN runs[r].read[p] :
                     runs[r].read[p][m].file # runs[r].file =>
                        /\ p \in DOMAIN runs[r].doc
                        /\ m \in DOMAIN runs[r].doc[p]
                        /\ runs[r].doc[p][m] = runs[r].read[p][m]

(***************************************************************************)
(* Claims about the backoff of the completion client.                      *)
(***************************************************************************)
\* C23: before the n-th retry of a request (n = 1, 2, 3) the client sleeps
\* 2^(n-1) seconds: 1 s, 2 s, 4 s; exactly one sleep separates two
\* consecutive transport calls of a request, and no sleep comes before the
\* first call or after the last.
C23_BackoffDelays ==
    /\ Len(sleeps) <= maxRetries
    /\ \A n \in 1..Len(sleeps) : sleeps[n] = (2 ^ (n - 1)) * 1000
    /\ cpc \in {"idle", "send"} => Len(sleeps) = Len(calls)
    /\ cpc \in {"sleep", "done", "tested"} => Len(sleeps) = Len(calls) - 1

\* A request that ended after three retries.
C23_Witness ==
    /\ cpc = "done"
    /\ sleeps = <<1000, 2000, 4000>>
    /\ Len(calls) = 4

(***************************************************************************)
(* Claims about the file watcher service.                                  *)
(***************************************************************************)
Due(i) == events[i].at + events[i].delay

FiredFor(i) == {k \in 1..Len(fired) : fired[k].event = i}

\* The event is the last of its burst: the next one, if any, comes no less
\* than the delay after it.
EndsBurst(i) ==
    \/ i = Len(events)
    \/ events[i + 1].at - events[i].at >= events[i].delay

\* C24 as stated: for any burst of file events in which each event arrives
\* less than debounceDelay after the previous one, onChange is invoked
\* exactly once, exactly debounceDelay after the last event of the burst and
\* never earlier, with the path of that event; at most one debounce timer is
\* pending at any time.
C24_OncePerBurst ==
    /\ Cardinality(timers) <= 1
    /\ \A i \in 1..Len(events) :
          IF EndsBurst(i)
          THEN /\ \A k \in FiredFor(i) :
                     fired[k].at = Due(i) /\ fired[k].path = events[i].path
               /\ Cardinality(FiredFor(i)) <= 1
               /\ now > Due(i) => Cardinality(FiredFor(i)) = 1
          ELSE FiredFor(i) = {}

\* How many of the four fates of the timer of event i hold.
Fates(i) ==
    (IF FiredFor(i) # {} THEN 1 ELSE 0)
    + (IF i \in superseded THEN 1 ELSE 0)
    + (IF i \in cancelled THEN 1 ELSE 0)
    + (IF \E t \in timers : t.id = i THEN 1 ELSE 0)

\* C24, amended: for any run of file events in which each event arrives
\* while the timer of the previous one is still pending, onChange is invoked
\* exactly once, with the path of the last event and exactly the
\* debounceDelay in force at that event after it, unless stop() clears the
\* timer first; at most one debounce timer is pending at any time.
C24_OncePerPendingRun ==
    /\ Cardinality(timers) <= 1
    /\ \A t \in timers :
          /\ t.id = Len(events)
          /\ t.path = events[t.id].path
          /\ t.due = Due(t.id)
          /\ t.due >= now
    /\ \A k \in 1..Len(fired) :
          /\ fired[k].path = events[fired[k].event].path
          /\ fired[k].at = Due(fired[k].event)
    /\ \A i \in 1..Len(events) :
          /\ Cardinality(FiredFor(i)) <= 1
          /\ Fates(i) = 1
          /\ i \in superseded => (i < Len(events) /\ events[i + 1].at <= Due(i))

\* Two events in a row, the second while the timer of the first was pending,
\* then one invocation for the second.
C24_Witness ==
    /\ Len(events) = 2
    /\ superseded = {1}
    /\ Len(fired) = 1
    /\ fired[1].event = 2
    /\ events[2].at > events[1].at

\* C25: after stop() returns, onChange is not invoked until start() is
\* called again, also when a debounce timer was pending at the moment of the
\* stop; stop() leaves no watcher and no timer behind, and with nothing
\* started it changes nothing.
C25_StopSilences ==
    /\ \A k \in 1..Len(fired) : ~fired[k].afterStop
    /\ stopped => (watchers = <<>> /\ debounceTimer = NoTimer /\ timers = {})

\* stop() cleared a pending timer and the time it was due at has passed.
C25_Witness ==
    /\ stopped
    /\ \E i \in cancelled : now > Due(i) /\ FiredFor(i) = {}

\* C30: under any sequence of start(), stop() and setEnabled(true/false)
\* calls the service holds either no watchers or exactly one watcher per
\* watch pattern (6 in total); it holds none whenever it is disabled.
C30_NoneOrSixWatchers ==
    /\ watchers \in {<<>>, Patterns}
    /\ ~isEnabled => watchers = <<>>

(***************************************************************************)
(* Declared tags.                                                          *)
(***************************************************************************)
\* C28: after finalizeDocument, every tag name carried by an operation of
\* the document (from addRoutes, from the manual fallback inside
\* addRouteWithAIDoc, or from an AI fragment) is declared by name in the
\* document's tags list, for any preceding sequence of add* calls.
C28_OperationTagsDeclared ==
    (glast.op = "finalizeDocument" /\ ~glast.threw) =>
        \A operation \in PathItemValues(paths) :
            operation.kind = "op" =>
                \A i \in 1..Len(operation.tags) : HasTag(tags, operation.tags[i])

=============================================================================
